---------------------------- MODULE Spec2Model ----------------------------
(***************************************************************************)
(* A model of the xCDN JavaScript library: Lexer, Parser, AST accessors    *)
(* and Serializer.                                                         *)
(*                                                                         *)
(* Text is a sequence of characters; a character is a one-character        *)
(* string, except for the control characters TLA+ cannot write, which are  *)
(* the strings CharOfCode builds ("<U+8>" is backspace; the grave accent,  *)
(* which the TLA+ parser rejects inside a string, is "<U+96>").            *)
(* JavaScript's                                                            *)
(* null, as returned by Lexer.peek() at the end of the input, is JsNull.   *)
(***************************************************************************)
EXTENDS Integers, Sequences, FiniteSets, TLC

VARIABLES
    source,     \* the text handed to parseStr / new Lexer(source)
    lexer,      \* cursor (pos, line, column) of a Lexer over source
    token,      \* the token the last Lexer.nextToken() returned
    doc,        \* the Document the caller holds
    err,        \* the XCDNError the last call threw (kind "None": none)
    format,     \* the Format of the last serialize call
    output,     \* the text the last serialize call on doc returned
    reparsed,   \* the Document parseStr(output) returned
    output2,    \* the text toStringWithFormat(reparsed, format) returned
    declared,   \* the keys the caller gave an XObject, in the order given
    serializer, \* the Serializer the caller made and calls serialize on
    pc          \* what the caller did last

vars == <<source, lexer, token, doc, err, format, output, reparsed, output2,
          declared, serializer, pc>>

---------------------------------------------------------------------------
(* Characters *)

JsNull == "<null>"

Digits == {"0", "1", "2", "3", "4", "5", "6", "7", "8", "9"}

LowerCase == {"a", "b", "c", "d", "e", "f", "g", "h", "i", "j", "k", "l", "m",
              "n", "o", "p", "q", "r", "s", "t", "u", "v", "w", "x", "y", "z"}

UpperCase == {"A", "B", "C", "D", "E", "F", "G", "H", "I", "J", "K", "L", "M",
              "N", "O", "P", "Q", "R", "S", "T", "U", "V", "W", "X", "Y", "Z"}

DigitSeq == <<"0", "1", "2", "3", "4", "5", "6", "7", "8", "9">>

HexLower == <<"0", "1", "2", "3", "4", "5", "6", "7", "8", "9",
              "a", "b", "c", "d", "e", "f">>

HexUpper == <<"0", "1", "2", "3", "4", "5", "6", "7", "8", "9",
              "A", "B", "C", "D", "E", "F">>

\* The printable ASCII characters, code 32 first.
Ascii == <<" ", "!", "\"", "#", "$", "%", "&", "'", "(", ")", "*", "+", ",",
           "-", ".", "/", "0", "1", "2", "3", "4", "5", "6", "7", "8", "9",
           ":", ";", "<", "=", ">", "?", "@", "A", "B", "C", "D", "E", "F",
           "G", "H", "I", "J", "K", "L", "M", "N", "O", "P", "Q", "R", "S",
           "T", "U", "V", "W", "X", "Y", "Z", "[", "\\", "]", "^", "_", "<U+96>",
           "a", "b", "c", "d", "e", "f", "g", "h", "i", "j", "k", "l", "m",
           "n", "o", "p", "q", "r", "s", "t", "u", "v", "w", "x", "y", "z",
           "{", "|", "}", "~">>

\* String.fromCharCode(n)
CharOfCode(n) ==
    IF n >= 32 /\ n <= 126 THEN Ascii[n - 31]
    ELSE IF n = 9 THEN "\t"
    ELSE IF n = 10 THEN "\n"
    ELSE IF n = 12 THEN "\f"
    ELSE IF n = 13 THEN "\r"
    ELSE "<U+" \o ToString(n) \o ">"

\* ch.charCodeAt(0) < 0x20
IsControl(ch) == \E n \in 0..31 : CharOfCode(n) = ch

\* ch.charCodeAt(0), for the characters with a code below 128
CharCode(ch) == CHOOSE n \in 0..127 : CharOfCode(n) = ch

RECURSIVE Concat(_)
Concat(ss) == IF ss = <<>> THEN <<>> ELSE Head(ss) \o Concat(Tail(ss))

---------------------------------------------------------------------------
(* error.js: Span, ErrorKind, XCDNError *)

Span(offset, line, column) ==
    [offset |-> offset, line |-> line, column |-> column]

ErrorKind == {"Eof", "InvalidToken", "Expected", "InvalidEscape",
              "InvalidNumber", "InvalidDecimal", "InvalidDateTime",
              "InvalidDuration", "InvalidUuid", "InvalidBase64", "Message"}

XCDNError(kind, span) == [kind |-> kind, span |-> span]

\* No error was thrown.
NoError == [kind |-> "None", span |-> Span(0, 0, 0)]

---------------------------------------------------------------------------
(* JavaScript numbers *)

RECURSIVE StripLeadingZeros(_)
StripLeadingZeros(ds) ==
    IF ds # <<>> /\ Head(ds) = "0" THEN StripLeadingZeros(Tail(ds)) ELSE ds

RECURSIVE StripTrailingZeros(_)
StripTrailingZeros(ds) ==
    IF ds # <<>> /\ ds[Len(ds)] = "0"
    THEN StripTrailingZeros(SubSeq(ds, 1, Len(ds) - 1))
    ELSE ds

\* the longest run of decimal digits of text that starts at its i-th
\* character (empty when that is no digit or i is beyond the end)
DigitsFrom(text, i) ==
    SubSeq(text, i,
           CHOOSE j \in (i - 1)..Len(text) :
               /\ \A k \in i..j : text[k] \in Digits
               /\ j = Len(text) \/ text[j + 1] \notin Digits)

DigitVal(d) == CHOOSE n \in 0..9 : DigitSeq[n + 1] = d

RECURSIVE NatOfDigits(_)
NatOfDigits(ds) ==
    IF ds = <<>> THEN 0
    ELSE 10 * NatOfDigits(SubSeq(ds, 1, Len(ds) - 1)) + DigitVal(ds[Len(ds)])

RECURSIVE DigitsOfNat(_)
DigitsOfNat(n) ==
    IF n < 10 THEN <<DigitSeq[n + 1]>>
    ELSE DigitsOfNat(n \div 10) \o <<DigitSeq[(n % 10) + 1]>>

Zeros(n) == [i \in 1..n |-> "0"]

\* an integer kept in a fixed width: of a magnitude of more than the 19
\* digits a signed 64-bit integer has, the leading ones are lost
BigIntOfFixedWidth(neg, ds) ==
    [neg |-> neg /\ StripLeadingZeros(ds) # <<>>,
     digits |->
        IF StripLeadingZeros(ds) = <<>> THEN <<"0">>
        ELSE SubSeq(StripLeadingZeros(ds),
                    IF Len(StripLeadingZeros(ds)) > 19
                    THEN Len(StripLeadingZeros(ds)) - 19 + 1 ELSE 1,
                    Len(StripLeadingZeros(ds)))]

\* A BigInt: sign and magnitude, the magnitude as its decimal digits without
\* leading zeros ("0" for zero), of any length.
BigIntOf(neg, ds) ==
    LET mag == StripLeadingZeros(ds) IN
    IF mag = <<>> THEN [neg |-> FALSE, digits |-> <<"0">>]
    ELSE [neg |-> neg, digits |-> mag]

\* BigInt(text) for a text made of an optional sign and decimal digits:
\* [ok, value]; a sign with no digit is a SyntaxError (ok = FALSE).
BigInt(text) ==
    LET signed == text # <<>> /\ Head(text) \in {"+", "-"}
        body == IF signed THEN Tail(text) ELSE text
    IN  IF signed /\ body = <<>>
        THEN [ok |-> FALSE, value |-> BigIntOf(FALSE, <<>>)]
        ELSE [ok |-> TRUE,
              value |-> BigIntOf(signed /\ Head(text) = "-", body)]

\* BigInt.prototype.toString()
BigIntToString(b) == (IF b.neg THEN <<"-">> ELSE <<>>) \o b.digits

\* A Number: cls is "finite", "inf" or "nan"; a finite value is
\* (-1)^neg * d1.d2d3... * 10^exp with digits d1 d2 ... the significant
\* digits (no leading or trailing zero; none for zero).
NaN == [cls |-> "nan", neg |-> FALSE, digits |-> <<>>, exp |-> 0]

NumberOf(neg, ip, fp, e) ==
    LET all == ip \o fp
        sig == StripLeadingZeros(all)
        lead == Len(all) - Len(sig)
        sci == Len(ip) - lead - 1 + e
        ds == StripTrailingZeros(sig)
    IN  IF ds = <<>>
        THEN [cls |-> "finite", neg |-> neg, digits |-> <<>>, exp |-> 0]
        ELSE IF sci > 308
        THEN [cls |-> "inf", neg |-> neg, digits |-> <<>>, exp |-> 0]
        ELSE IF sci < -324
        THEN [cls |-> "finite", neg |-> neg, digits |-> <<>>, exp |-> 0]
        ELSE [cls |-> "finite", neg |-> neg, digits |-> ds, exp |-> sci]

\* the value of an exponent's digits; beyond four digits it is out of the
\* double range whatever it is
ExponentOf(mag) == IF Len(mag) > 4 THEN 99999 ELSE NatOfDigits(mag)

\* the exponent of a literal: its digits ed (none: zero) and its sign
SignedExponent(eneg, ed) ==
    IF ed = <<>> THEN 0
    ELSE IF eneg THEN 0 - ExponentOf(StripLeadingZeros(ed))
    ELSE ExponentOf(StripLeadingZeros(ed))

\* 1 when the i-th character of text is one of chars, else 0
OneIf(text, i, chars) == IF i <= Len(text) /\ text[i] \in chars THEN 1 ELSE 0

\* parseFloat from the i-th character, where an exponent may start, after the
\* integer part ip and the fraction fp
floatAfterFraction(text, neg, ip, fp, i) ==
    IF ip = <<>> /\ fp = <<>> THEN NaN
    ELSE NumberOf(neg, ip, fp,
                  IF OneIf(text, i, {"e", "E"}) = 1
                  THEN SignedExponent(
                           OneIf(text, i + 1, {"-"}) = 1,
                           DigitsFrom(text,
                                      i + 1 + OneIf(text, i + 1, {"+", "-"})))
                  ELSE 0)

\* parseFloat from the fraction fp, the "." being the i-th character if
\* hasDot
floatFraction(text, neg, ip, fp, i, hasDot) ==
    floatAfterFraction(text, neg, ip, fp, i + hasDot + Len(fp))

\* parseFloat from the integer part ip, which starts at i
floatInteger(text, neg, ip, i) ==
    floatFraction(text, neg, ip,
                  IF OneIf(text, i + Len(ip), {"."}) = 1
                  THEN DigitsFrom(text, i + Len(ip) + 1)
                  ELSE <<>>,
                  i + Len(ip), OneIf(text, i + Len(ip), {"."}))

\* parseFloat(text): the longest prefix that is a decimal literal
\* (sign, digits, fraction, exponent); NaN when there is none.  Exact for
\* literals of at most 15 significant digits within the double range.
parseFloat(text) ==
    floatInteger(text, OneIf(text, 1, {"-"}) = 1,
                 DigitsFrom(text, 1 + OneIf(text, 1, {"+", "-"})),
                 1 + OneIf(text, 1, {"+", "-"}))

\* Number.prototype.toString()
NumberToString(x) ==
    IF x.cls = "nan" THEN <<"N", "a", "N">>
    ELSE IF x.cls = "inf"
    THEN (IF x.neg THEN <<"-">> ELSE <<>>)
         \o <<"I", "n", "f", "i", "n", "i", "t", "y">>
    ELSE IF x.digits = <<>> THEN <<"0">>
    ELSE
      LET k == Len(x.digits)
          n == x.exp + 1
          sign == IF x.neg THEN <<"-">> ELSE <<>>
          body ==
            IF k <= n /\ n <= 21 THEN x.digits \o Zeros(n - k)
            ELSE IF 0 < n /\ n <= 21
            THEN SubSeq(x.digits, 1, n) \o <<".">> \o SubSeq(x.digits, n + 1, k)
            ELSE IF -6 < n /\ n <= 0
            THEN <<"0", ".">> \o Zeros(0 - n) \o x.digits
            ELSE
              LET es == IF n - 1 < 0 THEN <<"-">> ELSE <<"+">>
                  ea == IF n - 1 < 0 THEN 1 - n ELSE n - 1
                  m == IF k = 1 THEN x.digits
                       ELSE <<x.digits[1], ".">> \o SubSeq(x.digits, 2, k)
              IN  m \o <<"e">> \o es \o DigitsOfNat(ea)
      IN  sign \o body

---------------------------------------------------------------------------
(* lexer.js: Token, Lexer *)

Token(kind, span, value) == [kind |-> kind, span |-> span, value |-> value]

\* No token was returned.
NoToken == Token("None", Span(0, 0, 0), JsNull)

\* The Lexer after its constructor: pos 0, line 1, column 1.
Lexer(s) == [pos |-> 0, line |-> 1, column |-> 1]

Lexer_span(L) == Span(L.pos, L.line, L.column)

Lexer_peek(s, L) == IF L.pos >= Len(s) THEN JsNull ELSE s[L.pos + 1]

Lexer_peekNext(s, L) == IF L.pos + 1 >= Len(s) THEN JsNull ELSE s[L.pos + 2]

\* a bump() that moves the cursor at the end of the input too
Lexer_bumpPastEnd(s, L) ==
    IF L.pos < Len(s) /\ s[L.pos + 1] = "\n"
    THEN [pos |-> L.pos + 1, line |-> L.line + 1, column |-> 1]
    ELSE [pos |-> L.pos + 1, line |-> L.line, column |-> L.column + 1]

\* bump() without "this.column = 1" at a newline
Lexer_bumpColumnKept(s, L) ==
    IF L.pos >= Len(s) THEN L
    ELSE IF s[L.pos + 1] = "\n"
    THEN [pos |-> L.pos + 1, line |-> L.line + 1, column |-> L.column + 1]
    ELSE [pos |-> L.pos + 1, line |-> L.line, column |-> L.column + 1]

\* The lexer after bump(); the character bump() returns is Lexer_peek(s, L).
Lexer_bump(s, L) ==
    IF L.pos >= Len(s) THEN L
    ELSE IF s[L.pos + 1] = "\n"
    THEN [pos |-> L.pos + 1, line |-> L.line + 1, column |-> 1]
    ELSE [pos |-> L.pos + 1, line |-> L.line, column |-> L.column + 1]

\* The JavaScript expression c >= '0' && c <= '9' for c a character or null:
\* null is converted to the number 0 and so is '0', so null passes.
geZeroLeNine(c) == c = JsNull \/ c \in Digits

isIdentStart(ch) == ch \in LowerCase \/ ch \in UpperCase \/ ch = "_"

isIdentContinue(ch) == isIdentStart(ch) \/ ch \in Digits \/ ch = "-"

isHexDigit(ch) ==
    ch \in Digits \/ ch \in {"a", "b", "c", "d", "e", "f"}
                  \/ ch \in {"A", "B", "C", "D", "E", "F"}

HexVal(h) ==
    CHOOSE n \in 0..15 : HexLower[n + 1] = h \/ HexUpper[n + 1] = h

\* parseInt(hex, 16) for four hexadecimal digits
parseIntHex(hex) ==
    4096 * HexVal(hex[1]) + 256 * HexVal(hex[2]) + 16 * HexVal(hex[3])
    + HexVal(hex[4])

RECURSIVE skipWsAndComments(_, _)
RECURSIVE skipLineComment(_, _)
\* the inner loop of a // comment: up to the newline or the end
skipLineComment(s, L) ==
    IF Lexer_peek(s, L) # JsNull /\ Lexer_peek(s, L) # "\n"
    THEN skipLineComment(s, Lexer_bump(s, L))
    ELSE L

RECURSIVE skipBlockComment(_, _)
\* the inner loop of a /* comment: [err, lex]
skipBlockComment(s, L) ==
    IF Lexer_peek(s, L) = JsNull
    THEN [err |-> XCDNError("Eof", Lexer_span(Lexer_bump(s, L))),
          lex |-> Lexer_bump(s, L)]
    ELSE IF Lexer_peek(s, L) = "*" /\ Lexer_peek(s, Lexer_bump(s, L)) = "/"
    THEN [err |-> NoError, lex |-> Lexer_bump(s, Lexer_bump(s, L))]
    ELSE skipBlockComment(s, Lexer_bump(s, L))

\* skipWsAndComments() after "/*" was consumed: r is the inner loop's result
afterBlockComment(s, r) ==
    IF r.err # NoError THEN r ELSE skipWsAndComments(s, r.lex)

\* [err, lex]
skipWsAndComments(s, L) ==
    IF Lexer_peek(s, L) = JsNull THEN [err |-> NoError, lex |-> L]
    ELSE IF Lexer_peek(s, L) \in {" ", "\t", "\r", "\n"}
    THEN skipWsAndComments(s, Lexer_bump(s, L))
    ELSE IF Lexer_peek(s, L) = "/" /\ Lexer_peekNext(s, L) = "/"
    THEN skipWsAndComments(
             s, skipLineComment(s, Lexer_bump(s, Lexer_bump(s, L))))
    ELSE IF Lexer_peek(s, L) = "/" /\ Lexer_peekNext(s, L) = "*"
    THEN afterBlockComment(
             s, skipBlockComment(s, Lexer_bump(s, Lexer_bump(s, L))))
    ELSE [err |-> NoError, lex |-> L]

\* a loop "while (peek() is in set) value += bump()", for a set without the
\* newline: [value, lex]; the loop stops before the first character that is
\* not in the set, or at the end of the input
readWhile(s, L, set) ==
    LET end == CHOOSE j \in L.pos..Len(s) :
                   /\ \A i \in (L.pos + 1)..j : s[i] \in set
                   /\ j = Len(s) \/ s[j + 1] \notin set
    IN  [value |-> SubSeq(s, L.pos + 1, end),
         lex |-> [pos |-> end, line |-> L.line,
                  column |-> L.column + (end - L.pos)]]

IdentChars == LowerCase \cup UpperCase \cup Digits \cup {"_", "-"}

\* the token of the identifier value: a keyword or an IDENT
identToken(startSpan, value) ==
    IF value = <<"t", "r", "u", "e">> THEN Token("TRUE", startSpan, TRUE)
    ELSE IF value = <<"f", "a", "l", "s", "e">>
    THEN Token("FALSE", startSpan, FALSE)
    ELSE IF value = <<"n", "u", "l", "l">>
    THEN Token("NULL", startSpan, JsNull)
    ELSE Token("IDENT", startSpan, value)

\* readIdent() once its loop has read r = [value, lex]
identRead(startSpan, r) ==
    [err |-> NoError, tok |-> identToken(startSpan, r.value), lex |-> r.lex]

\* [err, tok, lex]
readIdent(s, L) == identRead(Lexer_span(L), readWhile(s, L, IdentChars))

\* the end of readNumber(): value is the text read, L the cursor after it
numberToken(startSpan, value, isFloat, floatVal, intVal, L) ==
    IF isFloat
    THEN IF floatVal.cls = "nan"
         THEN [err |-> XCDNError("InvalidNumber", startSpan),
               tok |-> NoToken, lex |-> L]
         ELSE [err |-> NoError,
               tok |-> Token("FLOAT", startSpan, floatVal), lex |-> L]
    ELSE IF intVal.ok
         THEN [err |-> NoError,
               tok |-> Token("INT", startSpan, intVal.value), lex |-> L]
         ELSE [err |-> XCDNError("InvalidNumber", startSpan),
               tok |-> NoToken, lex |-> L]

\* readNumber() from "if (isFloat)"
numberRead(startSpan, value, isFloat, L) ==
    numberToken(startSpan, value, isFloat, parseFloat(value), BigInt(value), L)

\* readNumber() from "// Exponent", once the exponent, if any, was read:
\* r = [value, lex] is the text read for it and the cursor after it
afterExponent(startSpan, value, hasDot, hasExp, r) ==
    numberRead(startSpan, value \o r.value, hasDot \/ hasExp, r.lex)

\* the text [value, lex] made of `value` and then r's
prefixed(value, r) == [value |-> value \o r.value, lex |-> r.lex]

\* the exponent, if any: "e" or "E", an optional sign, digits
exponentPart(s, L) ==
    IF Lexer_peek(s, L) \in {"e", "E"}
    THEN IF Lexer_peek(s, Lexer_bump(s, L)) \in {"+", "-"}
         THEN prefixed(<<Lexer_peek(s, L), Lexer_peek(s, Lexer_bump(s, L))>>,
                       readWhile(s, Lexer_bump(s, Lexer_bump(s, L)), Digits))
         ELSE prefixed(<<Lexer_peek(s, L)>>,
                       readWhile(s, Lexer_bump(s, L), Digits))
    ELSE [value |-> <<>>, lex |-> L]

\* readNumber() from "// Decimal part", once the decimal part, if any, was
\* read: r = [value, lex]
afterDecimal(s, startSpan, value, hasDot, r) ==
    afterExponent(startSpan, value \o r.value, hasDot,
                  Lexer_peek(s, r.lex) \in {"e", "E"}, exponentPart(s, r.lex))

\* the decimal part, if any: a "." with a digit (or the end of the input)
\* after it, and the digits
decimalPart(s, L) ==
    IF Lexer_peek(s, L) = "." /\ geZeroLeNine(Lexer_peekNext(s, L))
    THEN prefixed(<<".">>, readWhile(s, Lexer_bump(s, L), Digits))
    ELSE [value |-> <<>>, lex |-> L]

\* readNumber() from "// Integer part", once its digits were read:
\* r = [value, lex]
afterInteger(s, startSpan, value, r) ==
    afterDecimal(s, startSpan, value \o r.value,
                 Lexer_peek(s, r.lex) = "."
                     /\ geZeroLeNine(Lexer_peekNext(s, r.lex)),
                 decimalPart(s, r.lex))

\* the optional sign
signPart(s, L) ==
    IF Lexer_peek(s, L) \in {"+", "-"}
    THEN [value |-> <<Lexer_peek(s, L)>>, lex |-> Lexer_bump(s, L)]
    ELSE [value |-> <<>>, lex |-> L]

\* readNumber() once the sign, if any, was read: r = [value, lex]
afterSign(s, startSpan, r) ==
    afterInteger(s, startSpan, r.value, readWhile(s, r.lex, Digits))

\* [err, tok, lex]
readNumber(s, L) == afterSign(s, Lexer_span(L), signPart(s, L))

RECURSIVE readHex4(_, _, _, _)
\* the loop reading the four digits of \uXXXX, from the i-th, hex the digits
\* read so far: [err, value, lex]
readHex4(s, L, i, hex) ==
    IF i = 4 THEN [err |-> NoError, value |-> hex, lex |-> L]
    ELSE IF Lexer_peek(s, L) = JsNull \/ ~isHexDigit(Lexer_peek(s, L))
    THEN [err |-> XCDNError("InvalidEscape", Lexer_span(Lexer_bump(s, L))),
          value |-> <<>>, lex |-> Lexer_bump(s, L)]
    ELSE readHex4(s, Lexer_bump(s, L), i + 1, Append(hex, Lexer_peek(s, L)))

\* The character a two-character escape stands for.
SimpleEscape(escaped) ==
    CASE escaped = "\"" -> "\""
      [] escaped = "\\" -> "\\"
      [] escaped = "/" -> "/"
      [] escaped = "b" -> CharOfCode(8)
      [] escaped = "f" -> "\f"
      [] escaped = "n" -> "\n"
      [] escaped = "r" -> "\r"
      [] escaped = "t" -> "\t"

\* the character of \uXXXX: h = [err, value, lex] is what readHex4 read
unicodeEscape(h) ==
    IF h.err # NoError THEN [err |-> h.err, value |-> "", lex |-> h.lex]
    ELSE [err |-> NoError, value |-> CharOfCode(parseIntHex(h.value)),
          lex |-> h.lex]

\* the escape sequence whose character after the backslash is escaped, L the
\* cursor after that character
escapeOf(s, escaped, L) ==
    IF escaped = JsNull
    THEN [err |-> XCDNError("Eof", Lexer_span(L)), value |-> "", lex |-> L]
    ELSE IF escaped \in {"\"", "\\", "/", "b", "f", "n", "r", "t"}
    THEN [err |-> NoError, value |-> SimpleEscape(escaped), lex |-> L]
    ELSE IF escaped = "u" THEN unicodeEscape(readHex4(s, L, 0, <<>>))
    ELSE [err |-> XCDNError("InvalidEscape", Lexer_span(L)),
          value |-> "", lex |-> L]

\* One pass of the loop of readStringContent over an escape sequence, the
\* backslash at L: [err, value, lex] with value the character it stands for.
readEscape(s, L) ==
    escapeOf(s, Lexer_peek(s, Lexer_bump(s, L)),
             Lexer_bump(s, Lexer_bump(s, L)))

\* the pass over an escape sequence: e = [err, value, lex] is what it read
escapePass(r, e) ==
    IF e.err # NoError
    THEN [err |-> e.err, value |-> <<>>, lex |-> e.lex, done |-> TRUE]
    ELSE [r EXCEPT !.value = Append(@, e.value), !.lex = e.lex]

\* One pass of the loop "while (true)" of readStringContent; r = [err, value,
\* lex, done] is the content read so far and the cursor, done once the loop
\* has returned or thrown.
stringPass(s, r) ==
    IF r.done THEN r
    ELSE IF Lexer_peek(s, r.lex) = JsNull
    THEN [err |-> XCDNError("Eof", Lexer_span(Lexer_bump(s, r.lex))),
          value |-> <<>>, lex |-> Lexer_bump(s, r.lex), done |-> TRUE]
    ELSE IF Lexer_peek(s, r.lex) = "\""
    THEN [r EXCEPT !.lex = Lexer_bump(s, r.lex), !.done = TRUE]
    ELSE IF Lexer_peek(s, r.lex) = "\\" THEN escapePass(r, readEscape(s, r.lex))
    ELSE [r EXCEPT !.value = Append(@, Lexer_peek(s, r.lex)),
                   !.lex = Lexer_bump(s, r.lex)]

RECURSIVE stringLoop(_, _, _)
\* n passes of the loop of readStringContent, the first n \div 2 then the rest
stringLoop(s, r, n) ==
    IF r.done \/ n = 0 THEN r
    ELSE IF n = 1 THEN stringPass(s, r)
    ELSE stringLoop(s, stringLoop(s, r, n \div 2), n - (n \div 2))

\* after the opening quote: [err, value, lex, done]; every pass but the last
\* consumes a character, so the loop ends within Len(s) - L.pos + 1 passes
readStringContent(s, L) ==
    stringLoop(s, [err |-> NoError, value |-> <<>>, lex |-> L, done |-> FALSE],
               Len(s) - L.pos + 1)

\* One pass of the loop "while (true)" of readTripleString.
triplePass(s, r) ==
    IF r.done THEN r
    ELSE IF Lexer_peek(s, r.lex) = JsNull
    THEN [err |-> XCDNError("Eof", Lexer_span(Lexer_bump(s, r.lex))),
          value |-> <<>>, lex |-> Lexer_bump(s, r.lex), done |-> TRUE]
    ELSE IF Lexer_peek(s, r.lex) = "\""
            /\ Lexer_peek(s, Lexer_bump(s, r.lex)) = "\""
            /\ Lexer_peekNext(s, Lexer_bump(s, r.lex)) = "\""
    THEN [r EXCEPT !.lex = Lexer_bump(s, Lexer_bump(s, Lexer_bump(s, r.lex))),
                   !.done = TRUE]
    ELSE [r EXCEPT !.value = Append(@, Lexer_peek(s, r.lex)),
                   !.lex = Lexer_bump(s, r.lex)]

RECURSIVE tripleLoop(_, _, _)
\* n passes of the loop of readTripleString, the first n \div 2 then the rest
tripleLoop(s, r, n) ==
    IF r.done \/ n = 0 THEN r
    ELSE IF n = 1 THEN triplePass(s, r)
    ELSE tripleLoop(s, tripleLoop(s, r, n \div 2), n - (n \div 2))

\* after the opening """: [err, value, lex, done]
readTripleString(s, L) ==
    tripleLoop(s, [err |-> NoError, value |-> <<>>, lex |-> L, done |-> FALSE],
               Len(s) - L.pos + 1)

StructuralKind(ch) ==
    CASE ch = "{" -> "LBRACE"
      [] ch = "}" -> "RBRACE"
      [] ch = "[" -> "LBRACKET"
      [] ch = "]" -> "RBRACKET"
      [] ch = "(" -> "LPAREN"
      [] ch = ")" -> "RPAREN"
      [] ch = ":" -> "COLON"
      [] ch = "," -> "COMMA"
      [] ch = "$" -> "DOLLAR"
      [] ch = "#" -> "HASH"
      [] ch = "@" -> "AT"

TypedKind(prefix) ==
    CASE prefix = "d" -> "D_QUOTED"
      [] prefix = "b" -> "B_QUOTED"
      [] prefix = "u" -> "U_QUOTED"
      [] prefix = "t" -> "T_QUOTED"
      [] prefix = "r" -> "R_QUOTED"

\* the token of a string or typed string: r = [err, value, lex] is what
\* readStringContent or readTripleString read
stringToken(kind, startSpan, r) ==
    IF r.err # NoError THEN [err |-> r.err, tok |-> NoToken, lex |-> r.lex]
    ELSE [err |-> NoError, tok |-> Token(kind, startSpan, r.value),
          lex |-> r.lex]

\* nextToken() from "const startSpan = this.span()": L is the cursor after
\* skipWsAndComments(), ch the character there
tokenAt(s, L, startSpan, ch) ==
    IF ch = JsNull
    THEN [err |-> NoError, tok |-> Token("EOF", startSpan, JsNull), lex |-> L]
    ELSE IF ch \in {"{", "}", "[", "]", "(", ")", ":", ",", "$", "#", "@"}
    THEN [err |-> NoError,
          tok |-> Token(StructuralKind(ch), startSpan, JsNull),
          lex |-> Lexer_bump(s, L)]
    ELSE IF ch = "\""
    THEN IF Lexer_peekNext(s, L) = "\""
            /\ Lexer_peekNext(s, Lexer_bump(s, L)) = "\""
         THEN stringToken("TRIPLE_STRING", startSpan,
                          readTripleString(
                              s, Lexer_bump(s, Lexer_bump(s, Lexer_bump(s, L)))))
         ELSE stringToken("STRING", startSpan,
                          readStringContent(s, Lexer_bump(s, L)))
    ELSE IF ch \in {"d", "b", "u", "t", "r"} /\ Lexer_peekNext(s, L) = "\""
    THEN stringToken(TypedKind(ch), startSpan,
                     readStringContent(s, Lexer_bump(s, Lexer_bump(s, L))))
    ELSE IF isIdentStart(ch) THEN readIdent(s, L)
    ELSE IF ch \in Digits \/ ch \in {".", "+", "-"}
    THEN IF ch = "." /\ ~geZeroLeNine(Lexer_peekNext(s, L))
         THEN [err |-> XCDNError("InvalidToken", startSpan),
               tok |-> NoToken, lex |-> L]
         ELSE IF ch \in {"+", "-"} /\ ~geZeroLeNine(Lexer_peekNext(s, L))
                 /\ Lexer_peekNext(s, L) # "."
         THEN [err |-> XCDNError("InvalidToken", startSpan),
               tok |-> NoToken, lex |-> L]
         ELSE readNumber(s, L)
    ELSE [err |-> XCDNError("InvalidToken", startSpan),
          tok |-> NoToken, lex |-> L]

\* nextToken() starting over once it is at the end: after the EOF token the
\* cursor is back at the first character
afterSkipStartingOver(s, sk) ==
    IF sk.err # NoError
    THEN [err |-> sk.err, tok |-> NoToken, lex |-> sk.lex]
    ELSE IF Lexer_peek(s, sk.lex) = JsNull
    THEN [err |-> NoError, tok |-> Token("EOF", Lexer_span(sk.lex), JsNull),
          lex |-> Lexer(s)]
    ELSE tokenAt(s, sk.lex, Lexer_span(sk.lex), Lexer_peek(s, sk.lex))

\* nextToken() after skipWsAndComments(): sk = [err, lex] is its result
afterSkip(s, sk) ==
    IF sk.err # NoError
    THEN [err |-> sk.err, tok |-> NoToken, lex |-> sk.lex]
    ELSE tokenAt(s, sk.lex, Lexer_span(sk.lex), Lexer_peek(s, sk.lex))

\* Lexer.nextToken(): [err, tok, lex]; on a throw err is the error and lex the
\* cursor the throw left behind.
nextToken(s, L) == afterSkip(s, skipWsAndComments(s, L))

---------------------------------------------------------------------------
(* ast.js: Document, Directive, Node, Tag, Annotation and the value types *)

Document(prolog, values) == [prolog |-> prolog, values |-> values]

Directive(name, value) == [name |-> name, value |-> value]

Node(tags, annotations, value) ==
    [tags |-> tags, annotations |-> annotations, value |-> value]

Tag(name) == [name |-> name]

Annotation(name, args) == [name |-> name, args |-> args]

Null == [type |-> "Null"]

Bool(value) == [type |-> "Bool", value |-> value]

\* class Int, given a bigint
IntValue(value) == [type |-> "Int", value |-> value]

Float(value) == [type |-> "Float", value |-> value]

DecimalValue(value) == [type |-> "Decimal", value |-> value]

XString(value) == [type |-> "String", value |-> value]

Bytes(value) == [type |-> "Bytes", value |-> value]

DateTime(value) == [type |-> "DateTime", value |-> value]

Duration(value) == [type |-> "Duration", value |-> value]

Uuid(value) == [type |-> "Uuid", value |-> value]

XArray(value) == [type |-> "Array", value |-> value]

\* An XObject holds a JavaScript Map: here the sequence of its entries
\* [key, node] in the Map's iteration order, no key twice.
XObject(value) == [type |-> "Object", value |-> value]

IsNode(x) == DOMAIN x = {"tags", "annotations", "value"}

\* new Map()
EmptyMap == <<>>

\* Map.prototype.has
MapHas(m, key) == \E i \in 1..Len(m) : m[i].key = key

\* Map.prototype.get, for a key the map has
MapGet(m, key) == m[CHOOSE i \in 1..Len(m) : m[i].key = key].node

\* a set that takes an existing key out of its place and puts it at the end
MapSetAtEnd(m, key, node) ==
    Append(SelectSeq(m, LAMBDA e : e.key # key), [key |-> key, node |-> node])

\* a set that leaves the entry of an existing key as it is
MapSetKeepingFirst(m, key, node) ==
    IF MapHas(m, key) THEN m
    ELSE Append(m, [key |-> key, node |-> node])

\* Map.prototype.set: the entry of an existing key keeps its place and gets
\* the new value; a new key is added at the end.
MapSet(m, key, node) ==
    IF MapHas(m, key)
    THEN [i \in 1..Len(m) |->
            IF m[i].key = key THEN [key |-> key, node |-> node] ELSE m[i]]
    ELSE Append(m, [key |-> key, node |-> node])

\* Array.from(map.keys())
MapKeys(m) == [i \in 1..Len(m) |-> m[i].key]

\* XObject.set(key, val): a val that is no Node is wrapped in one
XObject_set(obj, key, val) ==
    [obj EXCEPT !.value =
        MapSet(@, key, IF IsNode(val) THEN val ELSE Node(<<>>, <<>>, val))]

\* XObject.keys()
XObject_keys(obj) == MapKeys(obj.value)

\* XArray.append(val): a val that is no Node is wrapped in one
XArray_append(arr, val) ==
    [arr EXCEPT !.value =
        Append(@, IF IsNode(val) THEN val ELSE Node(<<>>, <<>>, val))]

\* XArray.set(index, val), this.value[index] = val, for an index from 0 to
\* the length: val is stored as it is
XArray_set(arr, index, val) ==
    [arr EXCEPT !.value =
        IF index < Len(@) THEN [@ EXCEPT ![index + 1] = val]
        ELSE Append(@, val)]

\* Node.set(key, value): delegated to the value if it has a set method, an
\* XObject or an XArray
Node_set(node, key, val) ==
    IF node.value.type = "Object"
    THEN [node EXCEPT !.value = XObject_set(@, key, val)]
    ELSE IF node.value.type = "Array"
    THEN [node EXCEPT !.value = XArray_set(@, key, val)]
    ELSE node

\* Node.append(value): delegated to the value if it is an XArray
Node_append(node, val) ==
    IF node.value.type = "Array"
    THEN [node EXCEPT !.value = XArray_append(@, val)]
    ELSE node

---------------------------------------------------------------------------
(* parser.js: the typed literals' decoders *)

B64Alphabet ==
    <<"A", "B", "C", "D", "E", "F", "G", "H", "I", "J", "K", "L", "M",
      "N", "O", "P", "Q", "R", "S", "T", "U", "V", "W", "X", "Y", "Z",
      "a", "b", "c", "d", "e", "f", "g", "h", "i", "j", "k", "l", "m",
      "n", "o", "p", "q", "r", "s", "t", "u", "v", "w", "x", "y", "z",
      "0", "1", "2", "3", "4", "5", "6", "7", "8", "9", "+", "/">>

B64Chars == {B64Alphabet[i] : i \in 1..64}

B64Index(c) == (CHOOSE i \in 1..64 : B64Alphabet[i] = c) - 1

SelectSeq2(text, drop) ==
    LET Keep(c) == c \notin drop IN SelectSeq(text, Keep)

RECURSIVE B64DecodeGroups(_)
\* the bytes of base64 characters, four characters for three bytes; the
\* spare bits of a last group of two or three characters are dropped
B64DecodeGroups(cs) ==
    IF Len(cs) < 2 THEN <<>>
    ELSE
      LET a == B64Index(cs[1])
          b == B64Index(cs[2])
          b1 == a * 4 + (b \div 16)
      IN  IF Len(cs) = 2 THEN <<b1>>
          ELSE
            LET c == B64Index(cs[3])
                b2 == (b % 16) * 16 + (c \div 4)
            IN  IF Len(cs) = 3 THEN <<b1, b2>>
                ELSE <<b1, b2, (c % 4) * 64 + B64Index(cs[4])>>
                     \o B64DecodeGroups(SubSeq(cs, 5, Len(cs)))

\* atob(str), the forgiving base64 decoding: [ok, bytes]
atob(str) ==
    LET data == SelectSeq2(str, {" ", "\t", "\n", "\f", "\r"})
        n == Len(data)
        cut == IF n % 4 = 0 /\ n >= 2 /\ data[n] = "=" /\ data[n - 1] = "="
               THEN 2
               ELSE IF n % 4 = 0 /\ n >= 1 /\ data[n] = "=" THEN 1
               ELSE 0
        body == SubSeq(data, 1, n - cut)
    IN  IF Len(body) % 4 = 1 \/ \E i \in 1..Len(body) : body[i] \notin B64Chars
        THEN [ok |-> FALSE, bytes |-> <<>>]
        ELSE [ok |-> TRUE, bytes |-> B64DecodeGroups(body)]

\* str.replace(/-/g, '+').replace(/_/g, '/')
urlSafeToStandard(str) ==
    [i \in 1..Len(str) |->
        IF str[i] = "-" THEN "+" ELSE IF str[i] = "_" THEN "/" ELSE str[i]]

\* '='.repeat(n)
Equals(n) == [i \in 1..n |-> "="]

\* decodeBase64(str): [ok, bytes]; ok = FALSE is the thrown Error
decodeBase64(str) ==
    LET std == atob(str)
        urlSafe == urlSafeToStandard(str)
        padded == urlSafe \o Equals((4 - (Len(urlSafe) % 4)) % 4)
    IN  IF std.ok THEN std ELSE atob(padded)

toLowerCase(str) ==
    [i \in 1..Len(str) |->
        IF str[i] \in UpperCase
        THEN Ascii[CharCode(str[i]) + 32 - 31]
        ELSE str[i]]

\* uuidRegex.test(str)
uuidRegexTest(str) ==
    /\ Len(str) = 36
    /\ \A i \in 1..36 :
          IF i \in {9, 14, 19, 24} THEN str[i] = "-" ELSE isHexDigit(str[i])

\* parseUuid(str): [ok, value]
parseUuid(str) ==
    IF uuidRegexTest(str) THEN [ok |-> TRUE, value |-> toLowerCase(str)]
    ELSE [ok |-> FALSE, value |-> <<>>]

\* str.replace('Z', '+00:00'): the first Z only
replaceFirstZ(str) ==
    IF \E i \in 1..Len(str) : str[i] = "Z"
    THEN LET i == CHOOSE j \in 1..Len(str) :
                     str[j] = "Z" /\ \A k \in 1..(j - 1) : str[k] # "Z"
         IN  SubSeq(str, 1, i - 1) \o <<"+", "0", "0", ":", "0", "0">>
             \o SubSeq(str, i + 1, Len(str))
    ELSE str

AllDigits(text, from, to) == \A i \in from..to : text[i] \in Digits

InRange(text, from, lo, hi) ==
    LET v == NatOfDigits(SubSeq(text, from, from + 1)) IN lo <= v /\ v <= hi

\* new Date(text) for the texts of the form YYYY-MM-DDTHH:mm:ss[.sss] followed
\* by Z or +00:00, the form toISOString writes: the instant is the record of
\* its UTC fields.  Every other text gives an invalid Date (getTime() is NaN);
\* the model's sources hold no text of another form that an engine accepts,
\* and no day of the month after the 28th.
InvalidDate == [valid |-> FALSE, date |-> <<>>, time |-> <<>>, ms |-> <<>>]

newDate(text) ==
    LET n == Len(text)
        utc == IF n >= 1 /\ text[n] = "Z" THEN 1
               ELSE IF n >= 6 /\ SubSeq(text, n - 5, n)
                                  = <<"+", "0", "0", ":", "0", "0">>
               THEN 6 ELSE 0
        m == n - utc
        shape == /\ utc > 0
                 /\ m \in {19, 23}
                 /\ AllDigits(text, 1, 4) /\ text[5] = "-"
                 /\ AllDigits(text, 6, 7) /\ text[8] = "-"
                 /\ AllDigits(text, 9, 10) /\ text[11] = "T"
                 /\ AllDigits(text, 12, 13) /\ text[14] = ":"
                 /\ AllDigits(text, 15, 16) /\ text[17] = ":"
                 /\ AllDigits(text, 18, 19)
                 /\ (m = 23 => text[20] = "." /\ AllDigits(text, 21, 23))
                 /\ InRange(text, 6, 1, 12) /\ InRange(text, 9, 1, 28)
                 /\ InRange(text, 12, 0, 23) /\ InRange(text, 15, 0, 59)
                 /\ InRange(text, 18, 0, 59)
    IN  IF shape
        THEN [valid |-> TRUE, date |-> SubSeq(text, 1, 10),
              time |-> SubSeq(text, 12, 19),
              ms |-> IF m = 23 THEN SubSeq(text, 21, 23)
                     ELSE <<"0", "0", "0">>]
        ELSE InvalidDate

\* parseDateTime(str): the Date; an invalid one is the thrown Error
parseDateTime(str) == newDate(replaceFirstZ(str))

---------------------------------------------------------------------------
(* parser.js: Parser *)
(* A parser is P = [lex, current]: its Lexer's cursor and its buffered     *)
(* token.  Every method gives [err, P, val]: the error it threw (NoError:  *)
(* none), the parser afterwards and the value it returned.                 *)

Ok(P, val) == [err |-> NoError, P |-> P, val |-> val]

Throw(e, P) == [err |-> e, P |-> P, val |-> JsNull]

\* statement sequencing: a call that threw ends the method with its error,
\* one that returned hands its result r to the statements after it
Then(r, rest(_)) == IF r.err # NoError THEN r ELSE rest(r)

\* the parser after a token was read: r is nextToken's [err, tok, lex] and
\* val the value to return
tokenRead(r, current, val) ==
    IF r.err # NoError
    THEN Throw(r.err, [lex |-> r.lex, current |-> current])
    ELSE Ok([lex |-> r.lex, current |-> r.tok], val)

\* new Parser(source): the constructor reads the first token
Parser(s) == tokenRead(nextToken(s, Lexer(s)), NoToken, JsNull)

Parser_peek(P) == P.current

\* bump(): val is the token consumed
Parser_bump(s, P) == tokenRead(nextToken(s, P.lex), P.current, P.current)

expect(s, P, kind) ==
    IF Parser_peek(P).kind # kind
    THEN Throw(XCDNError("Expected", Parser_peek(P).span), P)
    ELSE Parser_bump(s, P)

\* val is the identifier or the string
\* parseIdentString() with peek() in the place of bump(): the name is
\* returned and its token is still the current one
parseIdentStringPeeking(s, P) ==
    IF Parser_peek(P).kind = "IDENT" \/ Parser_peek(P).kind = "STRING"
    THEN Ok(P, Parser_peek(P).value)
    ELSE Throw(XCDNError("Expected", Parser_peek(P).span), P)

parseIdentString(s, P) ==
    IF Parser_peek(P).kind = "IDENT" \/ Parser_peek(P).kind = "STRING"
    THEN Then(Parser_bump(s, P), LAMBDA b : Ok(b.P, b.val.value))
    ELSE Throw(XCDNError("Expected", Parser_peek(P).span), P)

parseKey(s, P) == parseIdentString(s, P)

\* if (this.peek().kind === TokenType.COMMA) this.bump();
skipComma(s, P) ==
    IF Parser_peek(P).kind = "COMMA" THEN Parser_bump(s, P) ELSE Ok(P, JsNull)

RECURSIVE parseNode(_, _)
RECURSIVE parseValue(_, _)
RECURSIVE parseObject(_, _)
RECURSIVE parseArray(_, _)
RECURSIVE parseDecorations(_, _, _, _)
RECURSIVE parseArgs(_, _, _)
RECURSIVE parseEntries(_, _, _, _)
RECURSIVE parseItems(_, _, _)

\* the loop over an annotation's arguments, entered after "(" when the next
\* token is not ")": val is the arguments
parseArgs(s, P, args) ==
    Then(parseValue(s, P), LAMBDA v :
        IF Parser_peek(v.P).kind = "COMMA"
        THEN Then(Parser_bump(s, v.P), LAMBDA b :
                 parseArgs(s, b.P, Append(args, v.val)))
        ELSE IF Parser_peek(v.P).kind = "RPAREN"
        THEN Ok(v.P, Append(args, v.val))
        ELSE Throw(XCDNError("Expected", Parser_peek(v.P).span), v.P))

\* the arguments between "(" and ")", P being after the "(": val is the
\* arguments
parseArgList(s, P) ==
    Then(IF Parser_peek(P).kind # "RPAREN"
         THEN parseArgs(s, P, <<>>)
         ELSE Ok(P, <<>>),
         LAMBDA args :
             Then(expect(s, args.P, "RPAREN"), LAMBDA close :
                 Ok(close.P, args.val)))

\* an annotation after its "@": val is the Annotation
parseAnnotation(s, P) ==
    Then(parseIdentString(s, P), LAMBDA name :
        IF Parser_peek(name.P).kind # "LPAREN"
        THEN Ok(name.P, Annotation(name.val, <<>>))
        ELSE Then(Parser_bump(s, name.P), LAMBDA open :
                 Then(parseArgList(s, open.P), LAMBDA args :
                     Ok(args.P, Annotation(name.val, args.val)))))

RECURSIVE parseDecorationsReversed(_, _, _, _)
\* a loop over a node's decorations that puts each tag and each annotation
\* before the ones read so far
parseDecorationsReversed(s, P, tags, annotations) ==
    IF Parser_peek(P).kind = "AT"
    THEN Then(Parser_bump(s, P), LAMBDA b :
             Then(parseAnnotation(s, b.P), LAMBDA anno :
                 parseDecorationsReversed(s, anno.P, tags,
                                          <<anno.val>> \o annotations)))
    ELSE IF Parser_peek(P).kind = "HASH"
    THEN Then(Parser_bump(s, P), LAMBDA b :
             Then(parseIdentString(s, b.P), LAMBDA name :
                 parseDecorationsReversed(s, name.P,
                                          <<Tag(name.val)>> \o tags,
                                          annotations)))
    ELSE Ok(P, [tags |-> tags, annotations |-> annotations])

\* the loop over a node's decorations: val is [tags, annotations]
parseDecorations(s, P, tags, annotations) ==
    IF Parser_peek(P).kind = "AT"
    THEN Then(Parser_bump(s, P), LAMBDA b :
             Then(parseAnnotation(s, b.P), LAMBDA anno :
                 parseDecorations(s, anno.P, tags,
                                  Append(annotations, anno.val))))
    ELSE IF Parser_peek(P).kind = "HASH"
    THEN Then(Parser_bump(s, P), LAMBDA b :
             Then(parseIdentString(s, b.P), LAMBDA name :
                 parseDecorations(s, name.P, Append(tags, Tag(name.val)),
                                  annotations)))
    ELSE Ok(P, [tags |-> tags, annotations |-> annotations])

parseNode(s, P) ==
    Then(parseDecorations(s, P, <<>>, <<>>), LAMBDA d :
        Then(parseValue(s, d.P), LAMBDA v :
            Ok(v.P, Node(d.val.tags, d.val.annotations, v.val))))

\* the value of a b"..." token, P being the parser after the token
bytesValue(tok, P, bytes) ==
    IF bytes.ok THEN Ok(P, Bytes(bytes.bytes))
    ELSE Throw(XCDNError("InvalidBase64", tok.span), P)

\* the value of a u"..." token
uuidValue(tok, P, uuid) ==
    IF uuid.ok THEN Ok(P, Uuid(uuid.value))
    ELSE Throw(XCDNError("InvalidUuid", tok.span), P)

\* the value of a t"..." token
dateTimeValue(tok, P, dt) ==
    IF dt.valid THEN Ok(P, DateTime(dt))
    ELSE Throw(XCDNError("InvalidDateTime", tok.span), P)

\* the cases of parseValue's switch that consume one token, which
\* this.bump() has consumed: tok is the token and P the parser after it
scalarValue(tok, P) ==
    CASE tok.kind \in {"STRING", "TRIPLE_STRING"} -> Ok(P, XString(tok.value))
      [] tok.kind = "TRUE" -> Ok(P, Bool(TRUE))
      [] tok.kind = "FALSE" -> Ok(P, Bool(FALSE))
      [] tok.kind = "NULL" -> Ok(P, Null)
      [] tok.kind = "INT" -> Ok(P, IntValue(tok.value))
      [] tok.kind = "FLOAT" -> Ok(P, Float(tok.value))
      [] tok.kind = "D_QUOTED" -> Ok(P, DecimalValue(tok.value))
      [] tok.kind = "B_QUOTED" -> bytesValue(tok, P, decodeBase64(tok.value))
      [] tok.kind = "U_QUOTED" -> uuidValue(tok, P, parseUuid(tok.value))
      [] tok.kind = "T_QUOTED" ->
             dateTimeValue(tok, P, parseDateTime(tok.value))
      [] tok.kind = "R_QUOTED" -> Ok(P, Duration(tok.value))

ScalarKinds ==
    {"STRING", "TRIPLE_STRING", "TRUE", "FALSE", "NULL", "INT", "FLOAT",
     "D_QUOTED", "B_QUOTED", "U_QUOTED", "T_QUOTED", "R_QUOTED"}

parseValue(s, P) ==
    IF Parser_peek(P).kind = "LBRACE" THEN parseObject(s, P)
    ELSE IF Parser_peek(P).kind = "LBRACKET" THEN parseArray(s, P)
    ELSE IF Parser_peek(P).kind = "EOF"
    THEN Throw(XCDNError("Eof", Parser_peek(P).span), P)
    ELSE IF Parser_peek(P).kind \notin ScalarKinds
    THEN Throw(XCDNError("InvalidToken", Parser_peek(P).span), P)
    ELSE Then(Parser_bump(s, P), LAMBDA b : scalarValue(b.val, b.P))

\* the loop "key : node ,?" of an object, up to the token of kind end
\* (RBRACE for a braced object, EOF for the implicit one): val is the Map
parseEntries(s, P, objMap, end) ==
    IF Parser_peek(P).kind = end THEN Ok(P, objMap)
    ELSE Then(parseKey(s, P), LAMBDA key :
             Then(expect(s, key.P, "COLON"), LAMBDA colon :
                 Then(parseNode(s, colon.P), LAMBDA node :
                     Then(skipComma(s, node.P), LAMBDA comma :
                         parseEntries(s, comma.P,
                                      MapSet(objMap, key.val, node.val),
                                      end)))))

parseObject(s, P) ==
    Then(expect(s, P, "LBRACE"), LAMBDA open :
        Then(parseEntries(s, open.P, EmptyMap, "RBRACE"), LAMBDA entries :
            Then(expect(s, entries.P, "RBRACE"), LAMBDA close :
                Ok(close.P, XObject(entries.val)))))

\* the loop "node ,?" of an array: val is the items
parseItems(s, P, items) ==
    IF Parser_peek(P).kind = "RBRACKET" THEN Ok(P, items)
    ELSE Then(parseNode(s, P), LAMBDA node :
             Then(skipComma(s, node.P), LAMBDA comma :
                 parseItems(s, comma.P, Append(items, node.val))))

parseArray(s, P) ==
    Then(expect(s, P, "LBRACKET"), LAMBDA open :
        Then(parseItems(s, open.P, <<>>), LAMBDA items :
            Then(expect(s, items.P, "RBRACKET"), LAMBDA close :
                Ok(close.P, XArray(items.val)))))

\* isImplicitObject() without its look at the token after the first: every
\* IDENT or STRING would start an implicit object
isImplicitObjectUnseen(s, P) ==
    Ok(P, Parser_peek(P).kind = "IDENT" \/ Parser_peek(P).kind = "STRING")

\* isImplicitObject() without "// Restore state": the parser stays where
\* the bump left it
isImplicitObjectNotRestored(s, P) ==
    IF Parser_peek(P).kind = "IDENT" \/ Parser_peek(P).kind = "STRING"
    THEN Then(Parser_bump(s, P), LAMBDA b :
             Ok(b.P, Parser_peek(b.P).kind = "COLON"))
    ELSE Ok(P, FALSE)

\* isImplicitObject(): val is the boolean returned; P is restored from the
\* saved pos, line, column and current
isImplicitObject(s, P) ==
    IF Parser_peek(P).kind = "IDENT" \/ Parser_peek(P).kind = "STRING"
    THEN Then(Parser_bump(s, P), LAMBDA b :
             Ok([lex |-> [pos |-> P.lex.pos, line |-> P.lex.line,
                          column |-> P.lex.column],
                 current |-> P.current],
                Parser_peek(b.P).kind = "COLON"))
    ELSE Ok(P, FALSE)

RECURSIVE parseDirectives(_, _, _)
\* the loop over the prolog's directives: val is the prolog
parseDirectives(s, P, prolog) ==
    IF Parser_peek(P).kind # "DOLLAR" THEN Ok(P, prolog)
    ELSE Then(Parser_bump(s, P), LAMBDA dollar :
             Then(parseIdentString(s, dollar.P), LAMBDA name :
                 Then(expect(s, name.P, "COLON"), LAMBDA colon :
                     Then(parseNode(s, colon.P), LAMBDA value :
                         Then(skipComma(s, value.P), LAMBDA comma :
                             parseDirectives(
                                 s, comma.P,
                                 Append(prolog,
                                        Directive(name.val, value.val))))))))

RECURSIVE parseStream(_, _, _)
\* the loop over a stream of top-level values: val is the values
parseStream(s, P, values) ==
    IF Parser_peek(P).kind = "EOF" THEN Ok(P, values)
    ELSE Then(parseNode(s, P), LAMBDA node :
             parseStream(s, node.P, Append(values, node.val)))

\* parseDocument() after the prolog: val is the values
parseValues(s, P) ==
    IF Parser_peek(P).kind = "EOF" THEN Ok(P, <<>>)
    ELSE Then(isImplicitObject(s, P), LAMBDA implicit :
             IF implicit.val
             THEN Then(parseEntries(s, implicit.P, EmptyMap, "EOF"),
                       LAMBDA objMap :
                           Ok(objMap.P,
                              <<Node(<<>>, <<>>, XObject(objMap.val))>>))
             ELSE parseStream(s, implicit.P, <<>>))

\* parseDocument(): val is the Document
parseDocument(s, P) ==
    Then(parseDirectives(s, P, <<>>), LAMBDA prolog :
        Then(parseValues(s, prolog.P), LAMBDA values :
            Ok(values.P, Document(prolog.val, values.val))))

\* parseStr(source): [err, P, val] with val the Document
parseStr(s) == Then(Parser(s), LAMBDA parser : parseDocument(s, parser.P))

---------------------------------------------------------------------------
(* serializer.js: Format, Serializer *)
(* A serializer is S = [output, depth, thrown]; thrown is set when         *)
(* serializeValue met a value of no known type and threw.                  *)

Format(pretty, indent, trailingCommas) ==
    [pretty |-> pretty, indent |-> indent, trailingCommas |-> trailingCommas]

Serializer(fmt) == [output |-> <<>>, depth |-> 0, thrown |-> FALSE]

write(S, str) == IF S.thrown THEN S ELSE [S EXCEPT !.output = @ \o str]

newline(fmt, S) == IF fmt.pretty THEN write(S, <<"\n">>) ELSE S

\* ' '.repeat(n)
Spaces(n) == [i \in 1..n |-> " "]

writeIndent(fmt, S) ==
    IF fmt.pretty THEN write(S, Spaces(S.depth * fmt.indent)) ELSE S

\* isSimpleIdent() without the '-' among the characters that continue
isSimpleIdentNoHyphen(str) ==
    /\ Len(str) > 0
    /\ str[1] \in LowerCase \/ str[1] \in UpperCase \/ str[1] = "_"
    /\ \A i \in 2..Len(str) :
          \/ str[i] \in LowerCase
          \/ str[i] \in UpperCase
          \/ str[i] \in Digits
          \/ str[i] = "_"

isSimpleIdent(str) ==
    /\ Len(str) > 0
    /\ str[1] \in LowerCase \/ str[1] \in UpperCase \/ str[1] = "_"
    /\ \A i \in 2..Len(str) :
          \/ str[i] \in LowerCase
          \/ str[i] \in UpperCase
          \/ str[i] \in Digits
          \/ str[i] = "_"
          \/ str[i] = "-"

\* code.toString(16).padStart(4, '0') for a code below 0x20
Hex4(code) ==
    <<"0", "0", HexLower[(code \div 16) + 1], HexLower[(code % 16) + 1]>>

\* the switch of escapeString() without "case '\\'"
escapeCharBackslashKept(ch) ==
    IF ch = "\"" THEN <<"\\", "\"">>
    ELSE IF ch = CharOfCode(8) THEN <<"\\", "b">>
    ELSE IF ch = "\f" THEN <<"\\", "f">>
    ELSE IF ch = "\n" THEN <<"\\", "n">>
    ELSE IF ch = "\r" THEN <<"\\", "r">>
    ELSE IF ch = "\t" THEN <<"\\", "t">>
    ELSE IF IsControl(ch) THEN <<"\\", "u">> \o Hex4(CharCode(ch))
    ELSE <<ch>>

escapeChar(ch) ==
    IF ch = "\"" THEN <<"\\", "\"">>
    ELSE IF ch = "\\" THEN <<"\\", "\\">>
    ELSE IF ch = CharOfCode(8) THEN <<"\\", "b">>
    ELSE IF ch = "\f" THEN <<"\\", "f">>
    ELSE IF ch = "\n" THEN <<"\\", "n">>
    ELSE IF ch = "\r" THEN <<"\\", "r">>
    ELSE IF ch = "\t" THEN <<"\\", "t">>
    ELSE IF IsControl(ch) THEN <<"\\", "u">> \o Hex4(CharCode(ch))
    ELSE <<ch>>

escapeString(str) == Concat([i \in 1..Len(str) |-> escapeChar(str[i])])

RECURSIVE btoa(_)
\* btoa of the string whose character codes are the bytes
btoa(bytes) ==
    IF bytes = <<>> THEN <<>>
    ELSE
      LET n == Len(bytes)
          b1 == bytes[1]
          b2 == IF n >= 2 THEN bytes[2] ELSE 0
          b3 == IF n >= 3 THEN bytes[3] ELSE 0
          c1 == B64Alphabet[(b1 \div 4) + 1]
          c2 == B64Alphabet[((b1 % 4) * 16 + (b2 \div 16)) + 1]
          c3 == B64Alphabet[((b2 % 16) * 4 + (b3 \div 64)) + 1]
          c4 == B64Alphabet[(b3 % 64) + 1]
      IN  IF n = 1 THEN <<c1, c2, "=", "=">>
          ELSE IF n = 2 THEN <<c1, c2, c3, "=">>
          ELSE <<c1, c2, c3, c4>> \o btoa(SubSeq(bytes, 4, n))

encodeBase64(bytes) == btoa(bytes)

\* date.toISOString(), for a valid Date
formatDateTime(date) ==
    date.date \o <<"T">> \o date.time \o <<".">> \o date.ms \o <<"Z">>

RECURSIVE serializeNode(_, _, _)
RECURSIVE serializeValue(_, _, _)
RECURSIVE serializeArgs(_, _, _, _)
RECURSIVE serializeAnnotations(_, _, _, _)
RECURSIVE serializeItems(_, _, _, _)
RECURSIVE serializeEntries(_, _, _, _)

\* if (cond) this.write(str);
writeIf(cond, S, str) == IF cond THEN write(S, str) ELSE S

\* the loop over an annotation's arguments, from the i-th
serializeArgs(fmt, S, args, i) ==
    IF S.thrown \/ i > Len(args) THEN S
    ELSE serializeArgs(fmt,
                       writeIf(i < Len(args),
                               serializeValue(fmt, S, args[i]),
                               <<",", " ">>),
                       args, i + 1)

\* the arguments of an annotation, in parentheses when there are any
serializeArgList(fmt, S, args) ==
    IF Len(args) > 0
    THEN write(serializeArgs(fmt, write(S, <<"(">>), args, 1), <<")">>)
    ELSE S

\* the loop over a node's annotations, from the i-th
serializeAnnotations(fmt, S, annotations, i) ==
    IF S.thrown \/ i > Len(annotations) THEN S
    ELSE serializeAnnotations(
             fmt,
             write(serializeArgList(
                       fmt,
                       write(write(S, <<"@">>), annotations[i].name),
                       annotations[i].args),
                   <<" ">>),
             annotations, i + 1)

RECURSIVE serializeTags(_, _, _)
\* the loop over a node's tags, from the i-th
serializeTags(S, tags, i) ==
    IF S.thrown \/ i > Len(tags) THEN S
    ELSE serializeTags(write(write(write(S, <<"#">>), tags[i].name), <<" ">>),
                       tags, i + 1)

\* "for (const anno of node.annotations)" throws a TypeError for a node that
\* is no Node and has no annotations
serializeNode(fmt, S, node) ==
    IF ~IsNode(node) THEN [S EXCEPT !.thrown = TRUE]
    ELSE serializeValue(fmt,
                        serializeTags(
                            serializeAnnotations(fmt, S, node.annotations,
                                                 1),
                            node.tags, 1),
                        node.value)

\* the comma after the i-th of n elements: always between two elements,
\* after the last one if the format has trailing commas
writeComma(fmt, S, i, n) ==
    IF i < n THEN write(S, <<",">>)
    ELSE IF fmt.trailingCommas THEN write(S, <<",">>)
    ELSE S

\* the loop over an array's items, from the i-th
serializeItems(fmt, S, items, i) ==
    IF S.thrown \/ i > Len(items) THEN S
    ELSE serializeItems(
             fmt,
             newline(fmt,
                     writeComma(fmt,
                                serializeNode(fmt, writeIndent(fmt, S),
                                              items[i]),
                                i, Len(items))),
             items, i + 1)

\* if (this.format.pretty) { this.newline(); this.depth++; }
openBlock(fmt, S) ==
    IF fmt.pretty THEN [newline(fmt, S) EXCEPT !.depth = @ + 1] ELSE S

\* writeIndent() before the closing bracket with depth left as it was
closeBlockAtInnerDepth(fmt, S) ==
    IF fmt.pretty THEN writeIndent(fmt, S) ELSE S

\* if (this.format.pretty) { this.depth--; this.writeIndent(); }
closeBlock(fmt, S) ==
    IF fmt.pretty THEN writeIndent(fmt, [S EXCEPT !.depth = @ - 1]) ELSE S

serializeArray(fmt, S, arr) ==
    IF Len(arr.value) > 0
    THEN write(closeBlock(fmt,
                          serializeItems(fmt,
                                         openBlock(fmt, write(S, <<"[">>)),
                                         arr.value, 1)),
               <<"]">>)
    ELSE write(write(S, <<"[">>), <<"]">>)

\* an object's key: bare if it is a simple identifier, else quoted
writeKey(S, key) ==
    IF isSimpleIdent(key) THEN write(S, key)
    ELSE write(write(write(S, <<"\"">>), escapeString(key)), <<"\"">>)

\* the loop over an object's entries, from the i-th
serializeEntries(fmt, S, entries, i) ==
    IF S.thrown \/ i > Len(entries) THEN S
    ELSE serializeEntries(
             fmt,
             newline(fmt,
                     writeComma(
                         fmt,
                         serializeNode(
                             fmt,
                             writeIf(fmt.pretty,
                                     write(writeKey(writeIndent(fmt, S),
                                                    entries[i].key),
                                           <<":">>),
                                     <<" ">>),
                             entries[i].node),
                         i, Len(entries))),
             entries, i + 1)

serializeObject(fmt, S, obj) ==
    IF Len(obj.value) > 0
    THEN write(closeBlock(fmt,
                          serializeEntries(fmt,
                                           openBlock(fmt, write(S, <<"{">>)),
                                           obj.value, 1)),
               <<"}">>)
    ELSE write(write(S, <<"{">>), <<"}">>)

ValueTypes == {"Null", "Bool", "Int", "Float", "Decimal", "String", "Bytes",
               "DateTime", "Duration", "Uuid", "Array", "Object"}

\* the class of a value: its type, or none of the value types
TypeOf(value) == IF "type" \in DOMAIN value THEN value.type ELSE "Node"

\* this.write(open); this.write(text); this.write('"');
writeQuoted(S, open, text) == write(write(write(S, open), text), <<"\"">>)

serializeValue(fmt, S, value) ==
    CASE TypeOf(value) = "Null" -> write(S, <<"n", "u", "l", "l">>)
      [] TypeOf(value) = "Bool" ->
             write(S, IF value.value THEN <<"t", "r", "u", "e">>
                      ELSE <<"f", "a", "l", "s", "e">>)
      [] TypeOf(value) = "Int" -> write(S, BigIntToString(value.value))
      [] TypeOf(value) = "Float" -> write(S, NumberToString(value.value))
      [] TypeOf(value) = "Decimal" -> writeQuoted(S, <<"d", "\"">>, value.value)
      [] TypeOf(value) = "String" ->
             writeQuoted(S, <<"\"">>, escapeString(value.value))
      [] TypeOf(value) = "Bytes" ->
             writeQuoted(S, <<"b", "\"">>, encodeBase64(value.value))
      [] TypeOf(value) = "DateTime" ->
             writeQuoted(S, <<"t", "\"">>, formatDateTime(value.value))
      [] TypeOf(value) = "Duration" ->
             writeQuoted(S, <<"r", "\"">>, value.value)
      [] TypeOf(value) = "Uuid" -> writeQuoted(S, <<"u", "\"">>, value.value)
      [] TypeOf(value) = "Array" -> serializeArray(fmt, S, value)
      [] TypeOf(value) = "Object" -> serializeObject(fmt, S, value)
      [] OTHER -> [S EXCEPT !.thrown = TRUE]

serializeDirective(fmt, S, directive) ==
    newline(fmt,
            writeIf(fmt.trailingCommas,
                    serializeNode(
                        fmt,
                        writeIf(fmt.pretty,
                                write(write(write(S, <<"$">>),
                                            directive.name),
                                      <<":">>),
                                <<" ">>),
                        directive.value),
                    <<",">>))

RECURSIVE serializeProlog(_, _, _, _)
\* the loop over the prolog, from the i-th directive
serializeProlog(fmt, S, prolog, i) ==
    IF S.thrown \/ i > Len(prolog) THEN S
    ELSE serializeProlog(fmt, serializeDirective(fmt, S, prolog[i]),
                         prolog, i + 1)

\* if (cond) this.newline();
newlineIf(cond, fmt, S) == IF cond THEN newline(fmt, S) ELSE S

RECURSIVE serializeValues(_, _, _, _)
\* the loop over the top-level values, from the i-th
serializeValues(fmt, S, values, i) ==
    IF S.thrown \/ i > Len(values) THEN S
    ELSE serializeValues(fmt,
                         newlineIf(i < Len(values), fmt,
                                   serializeNode(fmt, S, values[i])),
                         values, i + 1)

\* Serializer.serialize(doc) on the serializer S of format fmt: the
\* serializer at the return; its output is the text returned
Serializer_serialize(fmt, S, d) ==
    serializeValues(fmt, serializeProlog(fmt, S, d.prolog, 1), d.values, 1)

\* new Serializer(fmt).serialize(doc)
serialize(fmt, d) == Serializer_serialize(fmt, Serializer(fmt), d)

toStringPretty(d) == serialize(Format(TRUE, 2, TRUE), d).output

toStringCompact(d) == serialize(Format(FALSE, 0, FALSE), d).output

toStringWithFormat(d, fmt) == serialize(fmt, d).output


---------------------------------------------------------------------------
(* The caller: texts handed to the library and the calls made on them *)

\* No Document is held (the call threw, or was not made yet).
NoDocument == [none |-> TRUE]

\* The formats a caller serializes with: toStringPretty's, toStringCompact's
\* and the two that differ from them in trailingCommas.
Formats == {Format(TRUE, 2, TRUE), Format(FALSE, 0, FALSE),
            Format(TRUE, 2, FALSE), Format(FALSE, 0, TRUE)}

\* The most fragments a generated source text is made of.
MaxFragments == 2

\* The pieces of the generated source texts: an entry, a bare identifier, a
\* string, a number, an array, an object, a directive.
Items == {<<"a", ":", " ", "1">>,
          <<"b", ":", " ", "2">>,
          <<"\"", "s", "\"", ":", " ", "3">>,
          <<"a">>,
          <<"\"", "s", "\"">>,
          <<"1">>,
          <<"[", "1", "]">>,
          <<"{", "a", ":", " ", "1", "}">>,
          <<"$", "d", ":", " ", "1">>}

\* What follows a piece: a space, or a comma and a space.
Seps == {<<" ">>, <<",", " ">>}

Fragments == {i \o s : i \in Items, s \in Seps}

RECURSIVE Texts(_)
\* the texts made of at most n fragments
Texts(n) ==
    IF n = 0 THEN {<<>>}
    ELSE Texts(n - 1) \cup {t \o f : t \in Texts(n - 1), f \in Fragments}

\* The examples the documentation gives of the top-level rule.
Examples == {<<"a", ":", " ", "1", ",", " ", "b", ":", " ", "2">>,
             <<"1", ",", " ", "2", ",", " ", "3">>,
             <<"1", " ", "2", " ", "3">>,
             <<"[", "1", ",", " ", "2", ",", "]">>,
             <<"{", "a", ":", " ", "1", ",", " ", "b", ":", " ", "2", ",",
               " ", "c", ":", " ", "3", "}">>}

\* The pieces that are values on their own.
ValueItems == {<<"1">>, <<"\"", "s", "\"">>, <<"[", "1", "]">>,
               <<"{", "a", ":", " ", "1", "}">>}

RECURSIVE CommaJoined(_)
\* the texts of a sequence with ", " between them
CommaJoined(texts) ==
    IF Len(texts) = 1 THEN texts[1]
    ELSE texts[1] \o <<",", " ">> \o CommaJoined(Tail(texts))

\* Streams of values separated by commas: any two values, and the
\* documentation's example 1, 2, 3.
StreamItems ==
    {<<v, w>> : v \in ValueItems, w \in ValueItems}
        \cup {<<<<"1">>, <<"2">>, <<"3">>>>}

CommaStreams == {CommaJoined(items) : items \in StreamItems}

Sources == Texts(MaxFragments) \cup Examples \cup CommaStreams

\* The caller holds no Serializer yet.
NoSerializer ==
    [made |-> FALSE, format |-> Format(TRUE, 2, TRUE),
     S |-> Serializer(Format(TRUE, 2, TRUE)), calls |-> 0]

\* The caller has a text and has called nothing yet.
Start(texts) ==
    /\ source \in texts
    /\ lexer = Lexer(source)
    /\ token = NoToken
    /\ doc = NoDocument
    /\ err = NoError
    /\ format = Format(TRUE, 2, TRUE)
    /\ output = <<>>
    /\ reparsed = NoDocument
    /\ output2 = <<>>
    /\ declared = <<>>
    /\ serializer = NoSerializer
    /\ pc = "start"

\* the caller's variables once nextToken gave r = [err, tok, lex]
tokenTaken(r) ==
    /\ token' = r.tok
    /\ lexer' = r.lex
    /\ err' = r.err
    /\ pc' = IF r.err = NoError THEN "lexing" ELSE "lexfailed"

\* lexer.nextToken() on a Lexer over source; after a throw the caller may
\* call again.
NextToken ==
    /\ pc \in {"start", "lexing", "lexfailed"}
    /\ tokenTaken(nextToken(source, lexer))
    /\ UNCHANGED <<source, doc, format, output, reparsed, output2, declared,
                   serializer>>

\* the caller's variables once parseStr(source) gave r = [err, P, val]
sourceParsed(r) ==
    /\ doc' = IF r.err = NoError THEN r.val ELSE NoDocument
    /\ err' = r.err
    /\ lexer' = r.P.lex
    /\ token' = r.P.current
    /\ pc' = IF r.err = NoError THEN "parsed" ELSE "failed"

\* doc = parseStr(source); lexer and token are the parser's at the return or
\* the throw.
ParseStr ==
    /\ pc = "start"
    /\ sourceParsed(parseStr(source))
    /\ UNCHANGED <<source, format, output, reparsed, output2, declared,
                   serializer>>

\* the caller's variables once the serializer S is done
serialized(S) ==
    /\ ~S.thrown
    /\ output' = S.output

\* output = toStringWithFormat(doc, fmt)
Serialize(fmt) ==
    /\ pc = "parsed"
    /\ serialized(serialize(fmt, doc))
    /\ format' = fmt
    /\ pc' = "serialized"
    /\ UNCHANGED <<source, lexer, token, doc, err, reparsed, output2, declared,
                   serializer>>

\* the caller's variables once parseStr(output) gave r = [err, P, val]
outputParsed(r) ==
    /\ reparsed' = IF r.err = NoError THEN r.val ELSE NoDocument
    /\ err' = r.err
    /\ pc' = IF r.err = NoError THEN "reparsed" ELSE "refused"

\* reparsed = parseStr(output)
Reparse ==
    /\ pc = "serialized"
    /\ outputParsed(parseStr(output))
    /\ UNCHANGED <<source, lexer, token, doc, format, output, output2,
                   declared, serializer>>

\* output2 = toStringWithFormat(reparsed, format)
Reserialize ==
    /\ pc = "reparsed"
    /\ output2' = toStringWithFormat(reparsed, format)
    /\ pc' = "reserialized"
    /\ UNCHANGED <<source, lexer, token, doc, err, format, output, reparsed,
                   declared, serializer>>

Init == Start(Sources)

Next ==
    \/ NextToken
    \/ ParseStr
    \/ \E fmt \in Formats : Serialize(fmt)
    \/ Reparse
    \/ Reserialize

Spec == Init /\ [][Next]_vars

---------------------------------------------------------------------------
(* Numeric literals *)

\* The most digits in the integer part of a generated numeric literal.
MaxDigits == 2

DigitPool == {"0", "1", "9"}

RECURSIVE DigitStrings(_)
\* the strings of one to n digits of the pool
DigitStrings(n) ==
    IF n = 0 THEN {}
    ELSE {<<d>> : d \in DigitPool}
             \cup {ds \o <<d>> : ds \in DigitStrings(n - 1), d \in DigitPool}

Signs == {<<>>, <<"+">>, <<"-">>}

FractionParts == {<<>>, <<".">>, <<".", "0">>, <<".", "5">>}

ExponentParts == {<<>>, <<"e", "2">>, <<"E", "-", "1">>}

\* 99999999999999999999999999, beyond the 64-bit range
Huge == [i \in 1..26 |-> "9"]

\* 18446744073709551616 = 2^64 and 9223372036854775808 = 2^63
TwoTo64 == <<"1", "8", "4", "4", "6", "7", "4", "4", "0", "7", "3", "7", "0",
             "9", "5", "5", "1", "6", "1", "6">>

TwoTo63 == <<"9", "2", "2", "3", "3", "7", "2", "0", "3", "6", "8", "5", "4",
             "7", "7", "5", "8", "0", "8">>

NumberLiterals ==
    {s \o d \o f \o e : s \in Signs, d \in DigitStrings(MaxDigits),
                        f \in FractionParts, e \in ExponentParts}
        \cup {s \o d : s \in Signs, d \in {Huge, TwoTo64, TwoTo63}}

\* A literal alone, and the documentation's two examples
NumberSources ==
    NumberLiterals
        \cup {<<"v", "a", "l", "u", "e", ":", " ">> \o Huge,
              <<"v", "a", "l", "u", "e", ":", " ", "1", ".", "0">>}

InitNum == Start(NumberSources)

SpecNum == InitNum /\ [][Next]_vars

---------------------------------------------------------------------------
(* Typed literals *)

\* The bodies of the generated typed literals, as they are written between
\* the quotes.
UuidLower == <<"5", "5", "0", "e", "8", "4", "0", "0", "-", "e", "2", "9",
               "b", "-", "4", "1", "d", "4", "-", "a", "7", "1", "6", "-",
               "4", "4", "6", "6", "5", "5", "4", "4", "0", "0", "0", "0">>

UuidUpper == <<"5", "5", "0", "E", "8", "4", "0", "0", "-", "E", "2", "9",
               "B", "-", "4", "1", "D", "4", "-", "A", "7", "1", "6", "-",
               "4", "4", "6", "6", "5", "5", "4", "4", "A", "B", "C", "D">>

UuidShort == <<"5", "5", "0", "e", "8", "4", "0", "0", "-", "e", "2", "9",
               "b", "-", "4", "1", "d", "4", "-", "a", "7", "1", "6", "-",
               "4", "4", "6", "6", "5", "5", "4", "4", "0", "0", "0">>

UuidNotHex == <<"5", "5", "0", "e", "8", "4", "0", "0", "-", "e", "2", "9",
                "b", "-", "4", "1", "d", "4", "-", "a", "7", "1", "6", "-",
                "4", "4", "6", "6", "5", "5", "4", "4", "0", "0", "0", "g">>

UuidNoDashes == <<"5", "5", "0", "e", "8", "4", "0", "0", "e", "2", "9", "b",
                  "4", "1", "d", "4", "a", "7", "1", "6", "4", "4", "6", "6",
                  "5", "5", "4", "4", "0", "0", "0", "0">>

NotAUuid == <<"n", "o", "t", "-", "a", "-", "u", "u", "i", "d">>

StdBase64 == <<"a", "G", "V", "s", "b", "G", "8", "=">>

StdBase64Plus == <<"+", "/", "+", "/">>

UrlBase64 == <<"-", "_", "-", "_">>

UrlBase64Short == <<"-", "_", "8">>

MixedBase64 == <<"+", "_", "+", "_">>

NotBase64 == <<"!", "!", "!", "n", "o", "t", "b", "a", "s", "e", "6", "4",
               "!", "!", "!">>

OneBase64Char == <<"a">>

DateTimeZ == <<"2", "0", "2", "4", "-", "0", "1", "-", "1", "5", "T", "1",
               "0", ":", "3", "0", ":", "0", "0", "Z">>

DateTimeMs == <<"2", "0", "2", "4", "-", "0", "1", "-", "1", "5", "T", "1",
                "0", ":", "3", "0", ":", "0", "0", ".", "1", "2", "5", "Z">>

DateTimeOffset == <<"2", "0", "2", "4", "-", "0", "1", "-", "1", "5", "T",
                    "1", "0", ":", "3", "0", ":", "0", "0", "+", "0", "0",
                    ":", "0", "0">>

NotADate == <<"n", "o", "t", "-", "a", "-", "d", "a", "t", "e">>

DateTimeMonth13 == <<"2", "0", "2", "4", "-", "1", "3", "-", "1", "5", "T",
                     "1", "0", ":", "3", "0", ":", "0", "0", "Z">>

DecimalPlain == <<"1", ".", "5", "0">>

DecimalQuote == <<"1", "\\", "\"", "2">>

DurationPlain == <<"P", "T", "1", "H">>

DurationBackslash == <<"P", "\\", "\\", "T">>
UuidBodies == {UuidLower, UuidUpper, UuidShort, UuidNotHex, UuidNoDashes,
               NotAUuid}

Base64Bodies == {StdBase64, StdBase64Plus, UrlBase64, UrlBase64Short,
                 MixedBase64, NotBase64, OneBase64Char}

DateTimeBodies == {DateTimeZ, DateTimeMs, DateTimeOffset, NotADate,
                   DateTimeMonth13}

DecimalBodies == {DecimalPlain, DecimalQuote}

DurationBodies == {DurationPlain, DurationBackslash}

\* the literal with the prefix letter p and the body b
TypedLiteral(p, b) == <<p, "\"">> \o b \o <<"\"">>

TypedLiterals ==
    {TypedLiteral("u", b) : b \in UuidBodies}
        \cup {TypedLiteral("b", b) : b \in Base64Bodies}
        \cup {TypedLiteral("t", b) : b \in DateTimeBodies}
        \cup {TypedLiteral("d", b) : b \in DecimalBodies}
        \cup {TypedLiteral("r", b) : b \in DurationBodies}

\* What a literal is written after: nothing, or a key on the line above.
TypedLeads == {<<>>, <<"x", ":", "\n", " ">>}

\* What is written after it: nothing, or a character that starts no token.
TypedTrails == {<<>>, <<" ", "^">>}

TypedSources ==
    {a \o l \o z : a \in TypedLeads, l \in TypedLiterals, z \in TypedTrails}

InitTyped == Start(TypedSources)

SpecTyped == InitTyped /\ [][Next]_vars

---------------------------------------------------------------------------
(* Round trips *)

\* toStringPretty's format
Pretty == Format(TRUE, 2, TRUE)

\* C1: round-trip tree equality in pretty mode.  Whenever a document was
\* serialized with toStringPretty and the text handed to parseStr, the parse
\* succeeded and returned a Document equal to the one serialized: the same
\* directives, top-level nodes, tags, annotations, orders, and values of the
\* same variant and payload.
RoundTripTreeEquality ==
    (format = Pretty /\ pc \in {"reparsed", "refused"})
        => (pc = "reparsed" /\ reparsed = doc)

\* C2: round-trip text idempotence.  Whenever a document was serialized
\* with toStringPretty, the text is parsed again without error, and
\* serializing the parsed tree with toStringPretty gives the same text,
\* character for character, Decimal and Duration payloads with quotes or
\* backslashes included.
RoundTripTextIdempotence ==
    format = Pretty
        => /\ pc # "refused"
           /\ pc = "reserialized" => output2 = output

\* C3: round-trip fidelity for every Format.  Whatever the Format a document
\* was serialized with, the compact one included, parsing the text succeeds
\* and returns a Document equal to the one serialized, prolog directives and
\* streams of several top-level values included.
RoundTripEveryFormat ==
    pc \in {"reparsed", "refused"} => (pc = "reparsed" /\ reparsed = doc)

---------------------------------------------------------------------------
(* The top level of a document *)

RECURSIVE TokensFrom(_, _)
\* the tokens a Lexer over s gives from the cursor L on, the EOF token
\* included; they stop short at a lexer error
TokensFrom(s, L) ==
    LET r == nextToken(s, L) IN
    IF r.err # NoError THEN <<>>
    ELSE IF r.tok.kind = "EOF" THEN <<r.tok>>
    ELSE <<r.tok>> \o TokensFrom(s, r.lex)

\* the nesting depth of the i-th of the tokens: the brackets, braces and
\* parentheses opened and not closed before it
DepthAt(toks, i) ==
    Cardinality({j \in 1..(i - 1) :
                    toks[j].kind \in {"LBRACE", "LBRACKET", "LPAREN"}})
        - Cardinality({j \in 1..(i - 1) :
                          toks[j].kind \in {"RBRACE", "RBRACKET", "RPAREN"}})

\* the i-th token is a key written at the depth d: a name or a string with
\* a colon after it
IsKeyAt(toks, i, d) ==
    /\ toks[i].kind \in {"IDENT", "STRING"}
    /\ i < Len(toks)
    /\ toks[i + 1].kind = "COLON"
    /\ DepthAt(toks, i) = d

RECURSIVE KeysFrom(_, _, _)
\* the keys at the depth d among the tokens from the i-th on, in their order
KeysFrom(toks, i, d) ==
    IF i > Len(toks) THEN <<>>
    ELSE (IF IsKeyAt(toks, i, d) THEN <<toks[i].value>> ELSE <<>>)
             \o KeysFrom(toks, i + 1, d)

RECURSIVE FirstOccurrences(_)
\* a sequence without its repetitions: each element where it first occurs
FirstOccurrences(seq) ==
    IF seq = <<>> THEN <<>>
    ELSE LET init == SubSeq(seq, 1, Len(seq) - 1)
             last == seq[Len(seq)]
         IN  IF \E i \in 1..Len(init) : init[i] = last
             THEN FirstOccurrences(init)
             ELSE Append(FirstOccurrences(init), last)

\* the parser once the prolog of s is read: [err, P, val], val the prolog
AfterProlog(s) ==
    Then(Parser(s), LAMBDA parser : parseDirectives(s, parser.P, <<>>))

\* the tokens of s after its prolog
BodyTokens(s) ==
    <<AfterProlog(s).P.current>> \o TokensFrom(s, AfterProlog(s).P.lex)

\* after the prolog the next token is an IDENT or a STRING and the token
\* right after it is a colon
KeyThenColon(s) ==
    /\ Len(BodyTokens(s)) >= 2
    /\ BodyTokens(s)[1].kind \in {"IDENT", "STRING"}
    /\ BodyTokens(s)[2].kind = "COLON"

\* after the prolog there is a token, and the one after it can be read
BodyStarts(s) ==
    /\ AfterProlog(s).err = NoError
    /\ AfterProlog(s).P.current.kind # "EOF"
    /\ nextToken(s, AfterProlog(s).P.lex).err = NoError

\* the outcome [err, val] of reading the rest of s as a stream of values
AsValueStream(s) ==
    LET r == parseStream(s, AfterProlog(s).P, <<>>) IN
    [err |-> r.err,
     val |-> IF r.err = NoError THEN Document(AfterProlog(s).val, r.val)
             ELSE NoDocument]

\* C4: the implicit-object rule.  When, after the prolog, the next token is
\* an IDENT or a STRING and the token right after it is a colon, a document
\* that parseStr returns has exactly one top-level node, without tags or
\* annotations, holding an Object whose keys are the top-level keys of the
\* source in source order; in every other case the outcome of parseStr, the
\* Document or the error, is that of reading the top level as a stream of
\* values.
ImplicitObjectRule ==
    (pc \in {"parsed", "failed"} /\ BodyStarts(source))
        => IF KeyThenColon(source)
           THEN pc = "parsed"
                    => /\ Len(doc.values) = 1
                       /\ doc.values[1].tags = <<>>
                       /\ doc.values[1].annotations = <<>>
                       /\ doc.values[1].value.type = "Object"
                       /\ XObject_keys(doc.values[1].value)
                              = FirstOccurrences(
                                    KeysFrom(BodyTokens(source), 1, 0))
           ELSE /\ err = AsValueStream(source).err
                /\ doc = AsValueStream(source).val

\* a source of the shape `key: value, key: value` was parsed into one
\* Object with two keys
ImplicitObjectParsed ==
    /\ pc = "parsed"
    /\ KeyThenColon(source)
    /\ Len(doc.values) = 1
    /\ Len(XObject_keys(doc.values[1].value)) = 2

\* a source that does not start with `key:` was parsed into a stream of two
\* values
ValueStreamParsed ==
    /\ pc = "parsed"
    /\ BodyStarts(source)
    /\ ~KeyThenColon(source)
    /\ Len(doc.values) = 2

\* the node parseStr gives for a text that is one value
NodeOf(text) == parseStr(text).val.values[1]

\* C5: value-stream parsing.  A top-level text of values separated by
\* commas, with no colon after its first token, such as 1, 2, 3, is parsed
\* without error into a stream with one top-level node per value, each the
\* node of that value.
CommaSeparatedStream ==
    \A items \in StreamItems :
        (source = CommaJoined(items) /\ pc \in {"parsed", "failed"})
            => /\ pc = "parsed"
               /\ doc.prolog = <<>>
               /\ doc.values = [i \in 1..Len(items) |-> NodeOf(items[i])]

---------------------------------------------------------------------------
(* Trailing commas *)

\* s with a comma put before the character at offset o
WithComma(s, o) == SubSeq(s, 1, o) \o <<",">> \o SubSeq(s, o + 1, Len(s))

\* s without the character at offset o
WithoutChar(s, o) == SubSeq(s, 1, o) \o SubSeq(s, o + 2, Len(s))

\* all the tokens of s
AllTokens(s) == TokensFrom(s, Lexer(s))

\* s with the comma before a closing bracket or brace taken away, or with
\* one put there when the bracket closes after an element
BeforeClosing(s) ==
    LET toks == AllTokens(s)
        closers == {i \in 2..Len(toks) :
                       toks[i].kind \in {"RBRACKET", "RBRACE"}}
    IN  {WithoutChar(s, toks[i - 1].span.offset) :
            i \in {j \in closers : toks[j - 1].kind = "COMMA"}}
        \cup {WithComma(s, toks[i].span.offset) :
                 i \in {j \in closers :
                           toks[j - 1].kind
                               \notin {"COMMA", "LBRACKET", "LBRACE"}}}

\* a directive, from its "$": [err, P, val]
directiveAt(s, P) ==
    Then(Parser_bump(s, P), LAMBDA dollar :
        Then(parseIdentString(s, dollar.P), LAMBDA name :
            Then(expect(s, name.P, "COLON"), LAMBDA colon :
                parseNode(s, colon.P))))

RECURSIVE AfterDirectives(_, _)
\* the tokens found right after the values of the directives of s, P being
\* at a directive or at the end of the prolog
AfterDirectives(s, P) ==
    IF P.current.kind # "DOLLAR" THEN {}
    ELSE LET r == directiveAt(s, P)
             c == skipComma(s, r.P)
         IN  IF r.err # NoError \/ c.err # NoError THEN {}
             ELSE {r.P.current} \cup AfterDirectives(s, c.P)

RECURSIVE AfterElements(_, _)
\* the tokens found right after the elements of a top-level stream, P being
\* at an element or at the end
AfterElements(s, P) ==
    IF P.current.kind = "EOF" THEN {}
    ELSE LET r == parseNode(s, P) IN
         IF r.err # NoError THEN {}
         ELSE {r.P.current} \cup AfterElements(s, r.P)

\* s with the comma that is the token tok taken away, or with a comma put
\* before tok when it is none
CommaToggled(s, tok) ==
    IF tok.kind = "COMMA" THEN WithoutChar(s, tok.span.offset)
    ELSE WithComma(s, tok.span.offset)

\* the same, after each directive's value
AfterDirectiveValue(s) ==
    {CommaToggled(s, tok) : tok \in AfterDirectives(s, Parser(s).P)}

\* the same, after each element of the top-level stream, if s has one
AfterStreamElement(s) ==
    IF AfterProlog(s).err # NoError \/ KeyThenColon(s) THEN {}
    ELSE {CommaToggled(s, tok) : tok \in AfterElements(s, AfterProlog(s).P)}

\* parseStr(text) returns the Document d
ParsesTo(text, d) == parseStr(text).err = NoError /\ parseStr(text).val = d

\* C6: trailing commas are optional everywhere.  For a text that parseStr
\* accepts, the text with one comma put or taken away right before a closing
\* bracket or brace, after a directive's value, or after an element of the
\* top-level stream, is accepted too and gives the same Document.
TrailingCommasOptional ==
    pc = "parsed"
        => \A text \in BeforeClosing(source) \cup AfterDirectiveValue(source)
                           \cup AfterStreamElement(source) :
               ParsesTo(text, doc)

\* The part of it that is about brackets, braces and directives.
TrailingCommasInsideOptional ==
    pc = "parsed"
        => \A text \in BeforeClosing(source) \cup AfterDirectiveValue(source) :
               ParsesTo(text, doc)

---------------------------------------------------------------------------
(* Objects under set *)

\* The most calls of set made on an object.
MaxSets == 2

\* The keys and the values the caller calls set with: a value, which set
\* wraps in a Node, and a Node.
SetKeys == {<<"a">>, <<"c">>, <<"z">>}

SetValues == {IntValue(BigIntOf(FALSE, <<"9">>)), Node(<<>>, <<>>, Null)}

\* The texts whose document is one Object.
ObjectSources ==
    {<<"{", "}">>,
     <<"{", "a", ":", " ", "1", ",", " ", "b", ":", " ", "2", ",", " ", "c",
       ":", " ", "3", "}">>,
     <<"{", "b", ":", " ", "1", ",", " ", "a", ":", " ", "2", ",", " ", "b",
       ":", " ", "3", "}">>,
     <<"a", ":", " ", "1", ",", " ", "b", ":", " ", "2">>}

\* the document's top level is one Object
HasRootObject ==
    /\ doc # NoDocument
    /\ Len(doc.values) = 1
    /\ doc.values[1].value.type = "Object"

\* doc.values[0].value.set(key, val); declared records the call
Set(key, val) ==
    /\ pc = "parsed"
    /\ HasRootObject
    /\ Len(declared) < MaxSets
    /\ doc' = [doc EXCEPT !.values[1].value = XObject_set(@, key, val)]
    /\ declared' = Append(declared, [key |-> key, val |-> val])
    /\ UNCHANGED <<source, lexer, token, err, format, output, reparsed,
                   output2, serializer, pc>>

InitMut == Start(ObjectSources)

NextMut == Next \/ \E key \in SetKeys, val \in SetValues : Set(key, val)

SpecMut == InitMut /\ [][NextMut]_vars

\* the keys the source declares for its root Object, in source order: those
\* at depth 1 if the Object is written in braces, at depth 0 if it is implicit
SourceKeys(s) ==
    KeysFrom(AllTokens(s), 1,
             IF AllTokens(s)[1].kind = "LBRACE" THEN 1 ELSE 0)

\* the keys declared by the source and then by the first n calls of set,
\* each at the place of its first declaration
DeclarationOrder(n) ==
    FirstOccurrences(SourceKeys(source)
                         \o [i \in 1..n |-> declared[i].key])

\* the keys of the root Object as the text written for it has them
WrittenKeys(text) == KeysFrom(AllTokens(text), 1, 1)

\* C7: order preservation under mutation.  keys() of an Object returns the
\* keys in declaration order; after each call of set this stays true, a set
\* on an existing key leaving the sequence of keys as it was and replacing
\* the value only, a set on a new key appending the key; and the serializer
\* writes the entries in the order of keys().
OrderPreserved ==
    (HasRootObject /\ pc \notin {"start", "failed"})
        => LET obj == doc.values[1].value
               n == Len(declared)
           IN  /\ XObject_keys(obj) = DeclarationOrder(n)
               /\ n > 0 =>
                    /\ XObject_keys(obj)
                           = IF \E i \in 1..Len(DeclarationOrder(n - 1)) :
                                    DeclarationOrder(n - 1)[i]
                                        = declared[n].key
                             THEN DeclarationOrder(n - 1)
                             ELSE Append(DeclarationOrder(n - 1),
                                         declared[n].key)
                    /\ MapGet(obj.value, declared[n].key).value
                           = IF IsNode(declared[n].val)
                             THEN declared[n].val.value
                             ELSE declared[n].val
               /\ pc = "serialized" => WrittenKeys(output) = XObject_keys(obj)

\* {a: 1, b: 2, c: 3} after set on the existing key a and on the new key z,
\* serialized
SetCallsSerialized ==
    /\ pc = "serialized"
    /\ HasRootObject
    /\ SourceKeys(source) = <<<<"a">>, <<"b">>, <<"c">>>>
    /\ Len(declared) = 2
    /\ declared[1].key = <<"a">>
    /\ declared[2].key = <<"z">>
    /\ XObject_keys(doc.values[1].value)
           = <<<<"a">>, <<"b">>, <<"c">>, <<"z">>>>

---------------------------------------------------------------------------
(* Numbers *)

ValueKey == <<"v", "a", "l", "u", "e", ":", " ">>

\* the source is written `value: literal`
IsKeyed(s) == Len(s) > Len(ValueKey) /\ SubSeq(s, 1, Len(ValueKey)) = ValueKey

\* the numeric literal of a source of NumberSources
LiteralOf(s) ==
    IF IsKeyed(s) THEN SubSeq(s, Len(ValueKey) + 1, Len(s)) ELSE s

\* a literal with no "." and no exponent
IsIntegerLiteral(lit) ==
    \A i \in 1..Len(lit) : lit[i] \in Digits \cup {"+", "-"}

\* the digits of an integer literal, without its sign
Magnitude(lit) == IF lit[1] \in {"+", "-"} THEN Tail(lit) ELSE lit

\* the integer a literal denotes, as the lexer's token holds a BigInt: zero
\* has no sign and the magnitude no leading zero
IntegerOf(lit) ==
    LET mag == StripLeadingZeros(Magnitude(lit))
    IN  [neg |-> lit[1] = "-" /\ mag # <<>>,
         digits |-> IF mag = <<>> THEN <<"0">> ELSE mag]

\* the canonical decimal form of the integer a literal denotes: a "-" if it
\* is negative, no "+", no leading zero
Canonical(lit) ==
    (IF IntegerOf(lit).neg THEN <<"-">> ELSE <<>>) \o IntegerOf(lit).digits

\* the characters of a text that can be part of an integer literal
SignsAndDigits(text) ==
    SelectSeq(text, LAMBDA c : c \in Digits \cup {"+", "-", "."})

\* the digits of a text
OnlyDigits(text) == SelectSeq(text, LAMBDA c : c \in Digits)

\* the node of the number of a parsed source of NumberSources
NumberNode ==
    IF IsKeyed(source)
    THEN MapGet(doc.values[1].value.value, <<"v", "a", "l", "u", "e">>)
    ELSE doc.values[1]

\* the first token of a bare integer literal is an INT holding exactly the
\* integer the literal denotes
IntegerLexedExactly ==
    (pc = "lexing" /\ token.span.offset = 0 /\ IsIntegerLiteral(source))
        => (token.kind = "INT" /\ token.value = IntegerOf(source))

\* a literal with a "." or an exponent is parsed to a Float node
FloatParsedAsFloat ==
    (pc = "parsed" /\ ~IsIntegerLiteral(LiteralOf(source)))
        => (Len(doc.values) = 1 /\ NumberNode.value.type = "Float")

\* an integer literal is parsed to an Int node holding the integer
IntegerParsedExactly ==
    (pc = "parsed" /\ IsIntegerLiteral(LiteralOf(source)))
        => /\ Len(doc.values) = 1
           /\ NumberNode.value = IntValue(IntegerOf(LiteralOf(source)))

\* C8, as claimed: an integer literal of any magnitude lexes to an INT
\* holding exactly that integer, and parse followed by serialize writes the
\* literal's own digit string (its digits as they stand after the sign); a
\* literal with a "." or an exponent is parsed to a Float node, never an Int
\* node.
NumericBoundaryVerbatim ==
    /\ IntegerLexedExactly
    /\ IntegerParsedExactly
    /\ (pc = "serialized" /\ IsIntegerLiteral(LiteralOf(source)))
           => OnlyDigits(output) = Magnitude(LiteralOf(source))
    /\ FloatParsedAsFloat

\* C8, amended: an integer literal of any magnitude lexes to an INT holding
\* exactly that integer, and parse followed by serialize writes the integer
\* in canonical decimal form, which is the literal's own digit string when
\* the literal has no "+", no redundant leading zero and is not -0; a
\* literal with a "." or an exponent is parsed to a Float node, never an Int
\* node.
NumericBoundaryCanonical ==
    /\ IntegerLexedExactly
    /\ IntegerParsedExactly
    /\ (pc = "serialized" /\ IsIntegerLiteral(LiteralOf(source)))
           => /\ SignsAndDigits(output) = Canonical(LiteralOf(source))
              /\ Canonical(LiteralOf(source)) = LiteralOf(source)
                     <=> /\ LiteralOf(source)[1] # "+"
                         /\ Magnitude(LiteralOf(source))
                                = IntegerOf(LiteralOf(source)).digits
                         /\ LiteralOf(source) # <<"-", "0">>
    /\ FloatParsedAsFloat

\* value: 99999999999999999999999999 was parsed and serialized, and the
\* text holds the same digits
HugeIntegerWritten ==
    /\ pc = "serialized"
    /\ source = ValueKey \o Huge
    /\ NumberNode.value.type = "Int"
    /\ SignsAndDigits(output) = Huge

\* the node of the number of the re-parsed document
ReparsedNumberNode ==
    IF IsKeyed(source)
    THEN MapGet(reparsed.values[1].value.value, <<"v", "a", "l", "u", "e">>)
    ELSE reparsed.values[1]

\* C9: Int and Float are never coerced into each other.  Serializing a
\* document and parsing the text again keeps the variant of a number: a
\* Float node, one of integral value such as the Float of 1.0 included, is
\* parsed again as a Float, and an Int node as an Int.
VariantKept ==
    (pc = "reparsed" /\ NumberNode.value.type \in {"Int", "Float"})
        => ReparsedNumberNode.value.type = NumberNode.value.type

\* The part of it that is about Int nodes.
IntVariantKept ==
    (pc = "reparsed" /\ NumberNode.value.type = "Int")
        => ReparsedNumberNode.value = NumberNode.value

---------------------------------------------------------------------------
(* Typed literals: validation *)

\* the Span of the character written right after the text a
SpanAfter(a) ==
    LET newlines == {i \in 1..Len(a) : a[i] = "\n"}
        last == IF newlines = {} THEN 0
                ELSE CHOOSE i \in newlines : \A j \in newlines : j <= i
    IN  Span(Len(a), 1 + Cardinality(newlines), 1 + Len(a) - last)

\* the 8-4-4-4-12 shape: 36 characters, hyphens after the 8th, 13th, 18th
\* and 23rd, hexadecimal digits elsewhere
HasUuidShape(b) ==
    /\ Len(b) = 8 + 4 + 4 + 4 + 12 + 4
    /\ \A i \in 1..Len(b) :
          IF i \in {9, 14, 19, 24} THEN b[i] = "-"
          ELSE b[i] \in Digits \cup {"a", "b", "c", "d", "e", "f",
                                     "A", "B", "C", "D", "E", "F"}

\* a UUID in lowercase
Lowered(b) ==
    [i \in 1..Len(b) |->
        CASE b[i] = "A" -> "a" [] b[i] = "B" -> "b" [] b[i] = "C" -> "c"
          [] b[i] = "D" -> "d" [] b[i] = "E" -> "e" [] b[i] = "F" -> "f"
          [] OTHER -> b[i]]

\* a text without the padding it ends with
Unpadded(b) ==
    SubSeq(b, 1, CHOOSE n \in 0..Len(b) :
                     /\ \A i \in (n + 1)..Len(b) : b[i] = "="
                     /\ n = 0 \/ b[n] # "=")

\* b is base64 in the alphabet whose 63rd and 64th characters are c63, c64
IsBase64In(b, c63, c64) ==
    /\ \A i \in 1..Len(Unpadded(b)) :
          Unpadded(b)[i] \in LowerCase \cup UpperCase \cup Digits
                                 \cup {c63, c64}
    /\ Len(Unpadded(b)) % 4 # 1
    /\ Len(b) - Len(Unpadded(b)) <= 2

\* b is valid under the standard or under the URL-safe alphabet
IsBase64(b) == IsBase64In(b, "+", "/") \/ IsBase64In(b, "-", "_")

\* the datetimes of the pool that are RFC 3339 datetimes
IsDateTime(b) == b \in {DateTimeZ, DateTimeMs, DateTimeOffset}

\* the source is the literal p"b" written after a and before z, and parseStr
\* has returned or thrown
Parsing(a, p, b, z) ==
    source = a \o TypedLiteral(p, b) \o z /\ pc \in {"parsed", "failed"}

\* the value of the literal in the parsed document
TypedValue(a) ==
    IF a = <<>> THEN doc.values[1].value
    ELSE MapGet(doc.values[1].value.value, <<"x">>).value

\* a u"..." literal that has not the 8-4-4-4-12 shape fails with InvalidUuid
\* at the literal; a valid one is stored in lowercase
UuidValidated ==
    \A a \in TypedLeads, b \in UuidBodies, z \in TypedTrails :
        Parsing(a, "u", b, z)
            => IF HasUuidShape(b)
               THEN pc = "parsed" => TypedValue(a) = Uuid(Lowered(b))
               ELSE pc = "failed"
                        /\ err = XCDNError("InvalidUuid", SpanAfter(a))

\* a b"..." literal valid under neither alphabet fails with InvalidBase64 at
\* the literal
Base64Validated ==
    \A a \in TypedLeads, b \in Base64Bodies, z \in TypedTrails :
        (Parsing(a, "b", b, z) /\ ~IsBase64(b))
            => (pc = "failed"
                    /\ err = XCDNError("InvalidBase64", SpanAfter(a)))

\* a t"..." literal that is no datetime fails with InvalidDateTime at the
\* literal
DateTimeValidated ==
    \A a \in TypedLeads, b \in DateTimeBodies, z \in TypedTrails :
        (Parsing(a, "t", b, z) /\ ~IsDateTime(b))
            => (pc = "failed"
                    /\ err = XCDNError("InvalidDateTime", SpanAfter(a)))

\* C10: typed-literal validation.  Parsing a u"..." literal whose body has
\* not the 8-4-4-4-12 hex shape fails with InvalidUuid, a b"..." literal
\* valid under neither base64 alphabet fails with InvalidBase64, and a
\* t"..." literal that is no datetime fails with InvalidDateTime, each with
\* the Span of the literal's first character, its prefix letter; a valid
\* UUID is stored lowercased.
TypedLiteralValidation ==
    UuidValidated /\ Base64Validated /\ DateTimeValidated

\* The same for the literals that nothing follows in the source.
TypedLiteralValidationAtEnd ==
    source[Len(source)] # "^" => TypedLiteralValidation

\* The literals that nothing follows, the base64 ones left aside.
UuidDateTimeValidationAtEnd ==
    source[Len(source)] # "^" => (UuidValidated /\ DateTimeValidated)

---------------------------------------------------------------------------
(* Decorations *)

\* The most decorations a generated node has.
MaxDecorations == 2

\* The decorations written before a value: the text, whether it is a tag,
\* its name and, for an annotation, the values of its arguments.
Decorations ==
    {[text |-> <<"#", "x">>, tag |-> TRUE, name |-> <<"x">>, args |-> <<>>],
     [text |-> <<"#", "y">>, tag |-> TRUE, name |-> <<"y">>, args |-> <<>>],
     [text |-> <<"@", "f", "(", "1", ")">>, tag |-> FALSE, name |-> <<"f">>,
      args |-> <<IntValue(BigIntOf(FALSE, <<"1">>))>>],
     [text |-> <<"@", "g">>, tag |-> FALSE, name |-> <<"g">>, args |-> <<>>],
     [text |-> <<"@", "h", "(", "1", ",", " ", "\"", "s", "\"", ")">>,
      tag |-> FALSE, name |-> <<"h">>,
      args |-> <<IntValue(BigIntOf(FALSE, <<"1">>)), XString(<<"s">>)>>],
     [text |-> <<"@", "k", "(", ")">>, tag |-> FALSE, name |-> <<"k">>,
      args |-> <<>>]}

RECURSIVE DecorationSeqs(_)
\* the sequences of at most n decorations
DecorationSeqs(n) ==
    IF n = 0 THEN {<<>>}
    ELSE DecorationSeqs(n - 1)
             \cup {Append(ds, d) : ds \in DecorationSeqs(n - 1),
                                   d \in Decorations}

\* The documentation's example: #x #y @f(1) @g
ExampleDecorations ==
    <<CHOOSE d \in Decorations : d.name = <<"x">>,
      CHOOSE d \in Decorations : d.name = <<"y">>,
      CHOOSE d \in Decorations : d.name = <<"f">>,
      CHOOSE d \in Decorations : d.name = <<"g">>>>

DecorationLists == DecorationSeqs(MaxDecorations) \cup {ExampleDecorations}

\* Where the decorated value is written: at the top level, as the value of
\* a key, as the element of an array.
DecorationPlaces == {"top", "entry", "element"}

\* the decorations and the string "v" they decorate
DecoratedValue(ds) ==
    Concat([i \in 1..Len(ds) |-> ds[i].text \o <<" ">>]) \o <<"\"", "v", "\"">>

\* the text with the decorated value at the place
DecoratedSource(place, ds) ==
    CASE place = "top" -> DecoratedValue(ds)
      [] place = "entry" -> <<"k", ":", " ">> \o DecoratedValue(ds)
      [] place = "element" -> <<"[">> \o DecoratedValue(ds) \o <<"]">>

DecoratedSources ==
    {DecoratedSource(place, ds) :
        place \in DecorationPlaces, ds \in DecorationLists}

InitDeco == Start(DecoratedSources)

SpecDeco == InitDeco /\ [][Next]_vars

\* the decorated node of a Document parsed from a text with the decorated
\* value at the place
DecoratedNode(d, place) ==
    CASE place = "top" -> d.values[1]
      [] place = "entry" -> d.values[1].value.value[1].node
      [] place = "element" -> d.values[1].value.value[1]

\* the tags among the decorations, in their order
TagsOf(ds) ==
    LET tags == SelectSeq(ds, LAMBDA d : d.tag)
    IN  [i \in 1..Len(tags) |-> Tag(tags[i].name)]

\* the annotations among the decorations, in their order
AnnotationsOf(ds) ==
    LET annos == SelectSeq(ds, LAMBDA d : ~d.tag)
    IN  [i \in 1..Len(annos) |-> Annotation(annos[i].name, annos[i].args)]

\* C11: decoration ordering on parse.  For every sequence of #tag and
\* @annotation(args) decorations written before a value, the parse succeeds
\* and the node has the tags in source order, the annotations in source
\* order, each with its arguments in source order (none when it has no
\* parentheses), and the value that follows as its value.
DecorationOrdering ==
    \A place \in DecorationPlaces, ds \in DecorationLists :
        (source = DecoratedSource(place, ds) /\ pc \in {"parsed", "failed"})
            => /\ pc = "parsed"
               /\ DecoratedNode(doc, place)
                      = Node(TagsOf(ds), AnnotationsOf(ds), XString(<<"v">>))

\* the documentation's example #x #y @f(1) @g "v" was parsed: two tags and
\* two annotations, the first with one argument
DecoratedExampleParsed ==
    /\ pc = "parsed"
    /\ source = DecoratedSource("top", ExampleDecorations)
    /\ Len(doc.values[1].tags) = 2
    /\ Len(doc.values[1].annotations) = 2
    /\ Len(doc.values[1].annotations[1].args) = 1

\* the decorations among the tokens, in their order: for every # or @ the
\* kind and the name after it
DecorationsWritten(toks) ==
    LET marks == SelectSeq([i \in 1..Len(toks) |-> i],
                           LAMBDA i : toks[i].kind \in {"HASH", "AT"})
    IN  [j \in 1..Len(marks) |->
            [tag |-> toks[marks[j]].kind = "HASH",
             name |-> toks[marks[j] + 1].value]]

\* the kinds and names of the decorations, in their order
DecorationNames(ds) ==
    [i \in 1..Len(ds) |-> [tag |-> ds[i].tag, name |-> ds[i].name]]

\* the text of a decoration as the serializer writes one: an annotation
\* without arguments has no parentheses
WrittenText(d) ==
    IF ~d.tag /\ d.args = <<>> THEN <<"@">> \o d.name ELSE d.text

\* the decorations in the order given, each with a space after it, and the
\* value
WrittenInOrder(ds) ==
    Concat([i \in 1..Len(ds) |-> WrittenText(ds[i]) \o <<" ">>])
        \o <<"\"", "v", "\"">>

\* C19: decorations are emitted in their original order.  Whatever the
\* Format, the text written for a node parsed from decorations and a value
\* has the node's tags and annotations in the order they had in the source,
\* each followed by a space, right before the value.
DecorationsEmittedInOrder ==
    \A place \in DecorationPlaces, ds \in DecorationLists :
        (source = DecoratedSource(place, ds) /\ pc = "serialized")
            => /\ DecorationsWritten(TokensFrom(output, Lexer(output)))
                      = DecorationNames(ds)
               /\ place = "top" => output = WrittenInOrder(ds)

\* What does hold of the text written: all the annotations in their order,
\* then all the tags in their order, then the value.
DecorationsEmittedByKind ==
    \A place \in DecorationPlaces, ds \in DecorationLists :
        (source = DecoratedSource(place, ds) /\ pc = "serialized")
            => /\ DecorationsWritten(TokensFrom(output, Lexer(output)))
                      = SelectSeq(DecorationNames(ds), LAMBDA d : ~d.tag)
                          \o SelectSeq(DecorationNames(ds), LAMBDA d : d.tag)
               /\ place = "top"
                      => output = WrittenInOrder(
                                      SelectSeq(ds, LAMBDA d : ~d.tag)
                                          \o SelectSeq(ds, LAMBDA d : d.tag))

---------------------------------------------------------------------------
(* Comments and whitespace *)

\* What is put between two tokens: a space, a newline, a line comment with
\* its newline, a block comment, an empty block comment.
Fillers == {<<" ">>,
            <<"\n">>,
            <<"/", "/", " ", "c", "\n">>,
            <<"/", "*", " ", "c", "2", " ", "*", "/">>,
            <<"/", "*", "*", "/">>}

\* s with the text f put in at offset o
Inserted(s, o, f) == SubSeq(s, 1, o) \o f \o SubSeq(s, o + 1, Len(s))

\* the offsets at which the tokens of s start, that of the EOF token
\* included: the start of the text or the end of a token, after the
\* whitespace and comments already there
TokenOffsets(s) ==
    {AllTokens(s)[i].span.offset : i \in 1..Len(AllTokens(s))}

\* the same without the EOF token's
InnerTokenOffsets(s) ==
    {AllTokens(s)[i].span.offset : i \in 1..(Len(AllTokens(s)) - 1)}

\* C12: comment transparency.  For a text that parseStr accepts, the text
\* with a line comment, a terminated block comment or whitespace put in
\* before any of its tokens, the EOF token included, is accepted too and
\* gives the same Document.
CommentTransparency ==
    pc = "parsed"
        => \A o \in TokenOffsets(source), f \in Fillers :
               ParsesTo(Inserted(source, o, f), doc)

\* The same before the first token and between two tokens that are not the
\* EOF token.
CommentTransparencyInside ==
    pc = "parsed"
        => \A o \in InnerTokenOffsets(source), f \in Fillers :
               ParsesTo(Inserted(source, o, f), doc)

---------------------------------------------------------------------------
(* error.js: the message of an XCDNError *)
(* A message is a sequence whose elements are the fixed phrases of        *)
(* formatMessage, each as one string, and the characters of the context   *)
(* and of the position.                                                    *)

\* The context of an error that was given none (null).
NoContext == <<JsNull>>

\* `${context}`
ContextText(context) == IF context = NoContext THEN <<"null">> ELSE context

\* Span.toString()
Span_toString(span) ==
    DigitsOfNat(span.line) \o <<":">> \o DigitsOfNat(span.column)

\* XCDNError.formatMessage(kind, context, span)
formatMessage(kind, context, span) ==
    (CASE kind = "Eof" -> <<"Unexpected end of input">>
       [] kind = "InvalidToken" -> <<"Invalid token: ">> \o ContextText(context)
       [] kind = "Expected" -> ContextText(context)
       [] kind = "InvalidEscape" -> <<"Invalid escape sequence">>
       [] kind = "InvalidNumber" -> <<"Invalid number format">>
       [] kind = "InvalidDecimal" ->
              <<"Invalid decimal value: ">> \o ContextText(context)
       [] kind = "InvalidDateTime" ->
              <<"Invalid datetime value: ">> \o ContextText(context)
       [] kind = "InvalidDuration" ->
              <<"Invalid duration value: ">> \o ContextText(context)
       [] kind = "InvalidUuid" ->
              <<"Invalid UUID value: ">> \o ContextText(context)
       [] kind = "InvalidBase64" ->
              <<"Invalid base64 value: ">> \o ContextText(context)
       [] kind = "Message" -> ContextText(context)
       [] OTHER -> IF context = NoContext \/ context = <<>>
                   THEN <<"Unknown error">>
                   ELSE context)
        \o <<" at ">> \o Span_toString(span)

---------------------------------------------------------------------------
(* Failed parses *)

\* Texts with a fault of each kind the lexer and the parser report, and
\* three without one.
FaultyBodies ==
    {<<"\"", "a", "b", "c">>,
     <<"/", "*", " ", "c">>,
     <<"\"", "a", "\\">>,
     <<"\"", "\\", "x", "\"">>,
     <<"\"", "\\", "u", "1", "2", "\"">>,
     <<"\"", "\"", "\"", "a", "b">>,
     <<"^">>,
     <<".">>,
     <<"+">>,
     <<"-", "x">>,
     <<".", "e">>,
     <<"{", "a", " ", "1", "}">>,
     <<"[", "1">>,
     <<"{">>,
     <<"a", ":">>,
     <<"@">>,
     <<"@", "f", "(", "1", " ", "2", ")">>,
     <<"#">>,
     <<"$">>,
     <<"$", "d", " ", "1">>,
     <<"u", "\"", "x", "\"">>,
     <<"b", "\"", "!", "\"">>,
     <<"t", "\"", "x", "\"">>,
     <<"1", " ", "]">>,
     <<"a", ":", " ", "1">>,
     <<"[", "1", ",", " ", "2", "]">>,
     <<"\"", "o", "k", "\"">>}

\* What comes before the fault: nothing, a space, an entry on the line
\* above.
FaultyLeads == {<<>>, <<" ">>, <<"x", ":", " ", "1", ",", "\n">>}

FaultySources == {l \o b : l \in FaultyLeads, b \in FaultyBodies}

InitErr == Start(FaultySources)

SpecErr == InitErr /\ [][Next]_vars

\* The contexts an XCDNError is given: none, a character, a text.
Contexts == {NoContext, <<"^">>,
             <<"E", "x", "p", "e", "c", "t", "e", "d", " ", "C", "O", "L",
               "O", "N">>}

RECURSIVE IsCompleteNode(_)
\* a Node with its three fields, whose value is of one of the value types
\* and whose children, if any, are such Nodes
IsCompleteNode(n) ==
    /\ IsNode(n)
    /\ TypeOf(n.value) \in ValueTypes
    /\ n.value.type = "Array"
           => \A i \in 1..Len(n.value.value) : IsCompleteNode(n.value.value[i])
    /\ n.value.type = "Object"
           => \A i \in 1..Len(n.value.value) :
                  IsCompleteNode(n.value.value[i].node)

\* a Document with its prolog and its values, all of them complete
IsCompleteDocument(d) ==
    /\ DOMAIN d = {"prolog", "values"}
    /\ \A i \in 1..Len(d.prolog) : IsCompleteNode(d.prolog[i].value)
    /\ \A i \in 1..Len(d.values) : IsCompleteNode(d.values[i])

\* the message ends with " at <line>:<column>", the line and the column
\* being the span's
RenderedAt(message, span) ==
    LET tail == <<" at ">> \o DigitsOfNat(span.line) \o <<":">>
                    \o DigitsOfNat(span.column)
    IN  /\ Len(message) > Len(tail)
        /\ SubSeq(message, Len(message) - Len(tail) + 1, Len(message)) = tail

\* C13: a failed parse never yields a Document.  parseStr either returns a
\* complete Document and throws nothing, or returns no Document and throws
\* one XCDNError whose kind is one of ErrorKind and whose Span is a position
\* of the source: an offset from 0 to the source's length, with the line
\* and the column of that offset; the error's message is its text followed
\* by " at <line>:<column>", whatever context it was given.
FailedParseYieldsNoDocument ==
    pc \in {"parsed", "failed"}
        => IF pc = "parsed"
           THEN err = NoError /\ IsCompleteDocument(doc)
           ELSE /\ doc = NoDocument
                /\ err.kind \in ErrorKind
                /\ err.span.offset \in 0..Len(source)
                /\ err.span = SpanAfter(SubSeq(source, 1, err.span.offset))
                /\ \A context \in Contexts :
                       RenderedAt(formatMessage(err.kind, context, err.span),
                                  err.span)

\* a parse failed at the end of the input, on its second line
ParseFailedAtEnd ==
    /\ pc = "failed"
    /\ err.kind = "Eof"
    /\ err.span.offset = Len(source)
    /\ err.span.line = 2

---------------------------------------------------------------------------
(* A Serializer the caller keeps *)

\* The most calls of serialize made on one Serializer.
MaxSerializeCalls == 2

\* serializer = new Serializer(fmt)
NewSerializer(fmt) ==
    /\ pc = "parsed"
    /\ ~serializer.made
    /\ serializer' = [made |-> TRUE, format |-> fmt, S |-> Serializer(fmt),
                      calls |-> 0]
    /\ UNCHANGED <<source, lexer, token, doc, err, format, output, reparsed,
                   output2, declared, pc>>

\* the caller's variables once serializer.serialize(doc) left the
\* serializer as S: the text returned is this.output
serializerCalled(S) ==
    /\ ~S.thrown
    /\ serializer' = [serializer EXCEPT !.S = S, !.calls = @ + 1]
    /\ output' = S.output

\* output = serializer.serialize(doc)
SerializerSerialize ==
    /\ pc = "parsed"
    /\ serializer.made
    /\ serializer.calls < MaxSerializeCalls
    /\ serializerCalled(Serializer_serialize(serializer.format, serializer.S,
                                             doc))
    /\ format' = serializer.format
    /\ UNCHANGED <<source, lexer, token, doc, err, reparsed, output2,
                   declared, pc>>

\* Texts of one value, of a stream, of an object, with and without a prolog.
SerializedSources ==
    Examples \cup {<<"1">>, <<>>, <<"$", "d", ":", " ", "1", ",", " ", "a",
                                   ":", " ", "[", "1", "]">>}

InitSer == Start(SerializedSources)

NextSer ==
    \/ Next
    \/ \E fmt \in Formats : NewSerializer(fmt)
    \/ SerializerSerialize

SpecSer == InitSer /\ [][NextSer]_vars

\* C14: serialize calls are independent.  The text a serialize call
\* returns, be it toStringPretty, toStringCompact, toStringWithFormat or
\* serialize on a Serializer the caller holds, is the text of the Document
\* in the Format of that call, whatever was serialized before; the same
\* Document serialized twice gives the same text twice.
SerializeCallsIndependent ==
    [][(SerializerSerialize \/ \E fmt \in Formats : Serialize(fmt))
           => output' = toStringWithFormat(doc, format')]_vars

\* The same for the three functions and for the first call of serialize on
\* a Serializer.
FirstSerializeCallsIndependent ==
    [][((SerializerSerialize /\ serializer.calls = 0)
            \/ \E fmt \in Formats : Serialize(fmt))
           => output' = toStringWithFormat(doc, format')]_vars

---------------------------------------------------------------------------
(* The layout of arrays and objects *)

\* The kinds of the tokens an element can end with.
ElementEnds ==
    ScalarKinds \cup {"RBRACKET", "RBRACE"}

\* among the tokens, the i-th is a comma right before a closing bracket or
\* brace
IsTrailingComma(toks, i) ==
    /\ toks[i].kind = "COMMA"
    /\ i < Len(toks)
    /\ toks[i + 1].kind \in {"RBRACKET", "RBRACE"}

\* among the tokens, the i-th ends an element inside an array or an object
\* and the next one starts another element without a comma between them
IsUnseparated(toks, i) ==
    /\ toks[i].kind \in ElementEnds
    /\ i < Len(toks)
    /\ DepthAt(toks, i + 1) >= 1
    /\ toks[i + 1].kind
           \notin {"COMMA", "COLON", "RBRACKET", "RBRACE", "RPAREN", "EOF"}

\* C15: compact mode never emits a trailing comma.  In a text written with
\* a Format whose pretty is false, whatever its trailingCommas, there is no
\* newline, no comma right before a closing bracket or brace, and a comma
\* between any two elements of an array or an object.
CompactNoTrailingComma ==
    (pc = "serialized" /\ ~format.pretty)
        => /\ \A i \in 1..Len(output) : output[i] # "\n"
           /\ \A i \in 1..Len(AllTokens(output)) :
                  /\ ~IsTrailingComma(AllTokens(output), i)
                  /\ ~IsUnseparated(AllTokens(output), i)

\* The same for the formats whose trailingCommas is false as well.
CompactNoTrailingCommaUnlessAsked ==
    (pc = "serialized" /\ ~format.pretty /\ ~format.trailingCommas)
        => /\ \A i \in 1..Len(output) : output[i] # "\n"
           /\ \A i \in 1..Len(AllTokens(output)) :
                  /\ ~IsTrailingComma(AllTokens(output), i)
                  /\ ~IsUnseparated(AllTokens(output), i)


\* The texts whose layout is looked at: empty and non-empty arrays and
\* objects, nested up to three deep, at the top level, in a directive, in a
\* stream and behind decorations.
LayoutSources ==
    {<<"[", "]">>,
     <<"{", "}">>,
     <<"[", "[", "]", "]">>,
     <<"[", "{", "}", "]">>,
     <<"{", "a", ":", " ", "[", "]", "}">>,
     <<"[", "1", "]">>,
     <<"[", "1", ",", " ", "2", "]">>,
     <<"[", "[", "1", "]", ",", " ", "2", "]">>,
     <<"[", "[", "1", ",", " ", "[", "2", ",", " ", "3", "]", "]", ",", " ",
       "{", "a", ":", " ", "1", "}", "]">>,
     <<"{", "a", ":", " ", "{", "b", ":", " ", "[", "1", ",", " ", "2", "]",
       ",", " ", "c", ":", " ", "{", "}", "}", ",", " ", "d", ":", " ", "3",
       "}">>,
     <<"a", ":", " ", "1", ",", " ", "b", ":", " ", "[", "2", "]">>,
     <<"$", "d", ":", " ", "[", "1", "]", ",", " ", "[", "2", "]">>,
     <<"[", "#", "t", " ", "[", "1", "]", ",", " ", "@", "f", "(", "1", ",",
       " ", "2", ")", " ", "3", "]">>,
     <<"[", "1", "]", " ", "[", "2", ",", " ", "3", "]">>}

\* The formats of toStringWithFormat calls with other indent sizes.
LayoutFormats ==
    {Format(TRUE, 4, FALSE), Format(TRUE, 1, TRUE), Format(TRUE, 0, TRUE),
     Format(TRUE, 3, FALSE)}

InitLayout == Start(LayoutSources)

NextLayout ==
    \/ Next
    \/ \E fmt \in LayoutFormats : Serialize(fmt)

SpecLayout == InitLayout /\ [][NextLayout]_vars

\* the arrays and objects open at the i-th of the tokens
BlockDepthAt(toks, i) ==
    Cardinality({j \in 1..(i - 1) : toks[j].kind \in {"LBRACE", "LBRACKET"}})
        - Cardinality({j \in 1..(i - 1) :
                          toks[j].kind \in {"RBRACE", "RBRACKET"}})

\* the argument lists open at the i-th of the tokens
ParenDepthAt(toks, i) ==
    Cardinality({j \in 1..(i - 1) : toks[j].kind = "LPAREN"})
        - Cardinality({j \in 1..(i - 1) : toks[j].kind = "RPAREN"})

\* the i-th of the tokens closes an array or an object
IsCloser(toks, i) == toks[i].kind \in {"RBRACKET", "RBRACE"}

\* the i-th of the tokens opens an array or an object
IsOpener(toks, i) == toks[i].kind \in {"LBRACKET", "LBRACE"}

\* the i-th of the tokens starts an element of an array or an object: it
\* comes after the opening bracket or after the comma of the element before
StartsElement(toks, i) ==
    /\ i > 1
    /\ BlockDepthAt(toks, i) >= 1
    /\ ParenDepthAt(toks, i) = 0
    /\ ~IsCloser(toks, i)
    /\ IsOpener(toks, i - 1) \/ toks[i - 1].kind = "COMMA"

\* the i-th of the tokens is the first of its line
StartsLine(toks, i) ==
    i > 1 /\ toks[i].span.line > toks[i - 1].span.line

\* the i-th of the tokens is at the start of the line after the token before
\* it, behind n spaces
OnOwnLine(toks, i, n) ==
    /\ toks[i].span.line = toks[i - 1].span.line + 1
    /\ toks[i].span.column = 1 + n

\* the layout of the text around its i-th token in pretty mode with the
\* format fmt
LaidOutAt(fmt, toks, i) ==
    /\ StartsElement(toks, i)
           => OnOwnLine(toks, i, BlockDepthAt(toks, i) * fmt.indent)
    /\ (StartsLine(toks, i) /\ BlockDepthAt(toks, i) >= 1
            /\ ~IsCloser(toks, i))
           => StartsElement(toks, i)
    /\ (IsCloser(toks, i) /\ ~IsOpener(toks, i - 1)
            /\ ParenDepthAt(toks, i) = 0)
           => /\ OnOwnLine(toks, i,
                           (BlockDepthAt(toks, i) - 1) * fmt.indent)
              /\ toks[i - 1].kind = "COMMA" <=> fmt.trailingCommas
              /\ toks[i + 1].kind = "COMMA"
                     \/ toks[i + 1].span.line > toks[i].span.line
                     \/ toks[i + 1].kind = "EOF"

\* the i-th and the next of the tokens are an empty array or object written
\* as [] or {}
EmptyBlockAt(toks, i) ==
    (IsOpener(toks, i) /\ IsCloser(toks, i + 1))
        => toks[i + 1].span.offset = toks[i].span.offset + 1

\* the layout of a text of the tokens toks written with the format fmt
LaidOut(fmt, toks) ==
    \A i \in 1..(Len(toks) - 1) :
        /\ EmptyBlockAt(toks, i)
        /\ fmt.pretty => LaidOutAt(fmt, toks, i)

\* C16: the layout of pretty mode.  In a text written with a pretty Format,
\* every element of a non-empty array or object nested k deep starts its own
\* line behind (k + 1) * indent spaces, the closing bracket is on its own
\* line behind k * indent spaces, and a comma follows every element, the
\* last one exactly when trailingCommas is set; in every mode an empty array
\* or object is written as [] or {}.
PrettyLayout ==
    pc = "serialized"
        => /\ Len(AllTokens(output)) > 0
           /\ AllTokens(output)[Len(AllTokens(output))].kind = "EOF"
           /\ LaidOut(format, AllTokens(output))
           /\ format.pretty
                  => \A i \in 1..Len(AllTokens(output)) :
                         ~IsUnseparated(AllTokens(output), i)

\* An array three deep was written with four spaces a level and without
\* trailing commas: its element is behind twelve spaces.
NestedArrayLaidOut ==
    /\ pc = "serialized"
    /\ format = Format(TRUE, 4, FALSE)
    /\ \E i \in 1..Len(AllTokens(output)) :
           /\ BlockDepthAt(AllTokens(output), i) = 3
           /\ StartsElement(AllTokens(output), i)
           /\ AllTokens(output)[i].span.column = 13


---------------------------------------------------------------------------
(* The prolog as it is written *)

\* the tokens of the text s that are at a "$"
DollarsIn(s) ==
    {i \in 1..Len(AllTokens(s)) : AllTokens(s)[i].kind = "DOLLAR"}

\* the text s starts with n directives, each with a comma after its value
DirectivesWithCommas(s, n) ==
    /\ Cardinality(AfterDirectives(s, Parser(s).P)) = n
    /\ Cardinality(DollarsIn(s)) = n
    /\ \A tok \in AfterDirectives(s, Parser(s).P) : tok.kind = "COMMA"

\* in the text s every directive starts a line and its comma ends one
DirectivesOnLines(s) ==
    \A i \in 1..(Len(AllTokens(s)) - 1) :
        /\ i \in DollarsIn(s) => AllTokens(s)[i].span.column = 1
        /\ AllTokens(s)[i] \in AfterDirectives(s, Parser(s).P)
               => \/ AllTokens(s)[i + 1].kind = "EOF"
                  \/ AllTokens(s)[i + 1].span.line
                         > AllTokens(s)[i].span.line

\* C17: directives always get a trailing comma.  For every Format the text
\* of a Document starts with its directives, each written as $name: value
\* with a comma after it, before any top-level value, and in pretty mode one
\* directive per line with a line break after the comma.
DirectivesGetComma ==
    (pc = "serialized" /\ Len(doc.prolog) > 0)
        => /\ DirectivesWithCommas(output, Len(doc.prolog))
           /\ format.pretty => DirectivesOnLines(output)

\* The same for the formats whose trailingCommas is true.
DirectivesGetCommaWhenAsked ==
    (pc = "serialized" /\ Len(doc.prolog) > 0 /\ format.trailingCommas)
        => /\ DirectivesWithCommas(output, Len(doc.prolog))
           /\ format.pretty => DirectivesOnLines(output)


---------------------------------------------------------------------------
(* The keys of an object as they are written *)

\* The texts whose document is one Object with keys of every shape: names,
\* a keyword, the empty key, keys that start like a number or with a
\* hyphen, and keys with a space, punctuation, a quote, a backslash or a
\* control character.
KeySources ==
    {<<"{", "\"", "a", "\"", ":", " ", "1", "}">>,
     <<"{", "\"", "_", "x", "\"", ":", " ", "1", "}">>,
     <<"{", "\"", "a", "-", "1", "\"", ":", " ", "1", "}">>,
     <<"{", "\"", "A", "9", "\"", ":", " ", "1", "}">>,
     <<"{", "\"", "a", "_", "b", "\"", ":", " ", "1", "}">>,
     <<"{", "\"", "t", "r", "u", "e", "\"", ":", " ", "1", "}">>,
     <<"{", "\"", "Z", "\"", ":", " ", "1", "}">>,
     <<"{", "\"", "a", "-", "\"", ":", " ", "1", "}">>,
     <<"{", "\"", "_", "_", "\"", ":", " ", "1", "}">>,
     <<"{", "\"", "\"", ":", " ", "1", "}">>,
     <<"{", "\"", "1", "a", "\"", ":", " ", "1", "}">>,
     <<"{", "\"", "-", "a", "\"", ":", " ", "1", "}">>,
     <<"{", "\"", "a", " ", "b", "\"", ":", " ", "1", "}">>,
     <<"{", "\"", "a", ".", "b", "\"", ":", " ", "1", "}">>,
     <<"{", "\"", "a", ":", "b", "\"", ":", " ", "1", "}">>,
     <<"{", "\"", "a", "\\", "\"", "b", "\"", ":", " ", "1", "}">>,
     <<"{", "\"", "a", "\\", "\\", "b", "\"", ":", " ", "1", "}">>,
     <<"{", "\"", "a", "\\", "n", "b", "\"", ":", " ", "1", "}">>,
     <<"{", "\"", " ", "\"", ":", " ", "1", "}">>,
     <<"{", "\"", "$", "a", "\"", ":", " ", "1", "}">>,
     <<"{", "\"", "9", "\"", ":", " ", "1", "}">>,
     <<"{", "\"", "a", ",", "b", "\"", ":", " ", "1", "}">>,
     <<"{", "\"", "a", "-", "b", " ", "c", "\"", ":", " ", "1", "}">>,
     <<"{", "\"", "a", "\\", "u", "0", "0", "0", "1", "\"", ":", " ", "1",
       "}">>,
     <<"{", "a", "-", "1", ":", " ", "1", ",", " ", "\"", "b", " ", "c",
       "\"", ":", " ", "1", ",", " ", "_", "d", ":", " ", "1", "}">>,
     <<"{", "\"", "x", "-", "\"", ":", " ", "1", ",", " ", "\"", "-", "x",
       "\"", ":", " ", "1", "}">>,
     <<"k", "-", "1", ":", " ", "1", ",", " ", "\"", "k", " ", "2", "\"",
       ":", " ", "1">>}

InitKeys == Start(KeySources)

SpecKeys == InitKeys /\ [][Next]_vars

\* the shape of an identifier: an ASCII letter or an underscore, then ASCII
\* letters, digits, underscores and hyphens
IdentShape(key) ==
    /\ key # <<>>
    /\ key[1] \in LowerCase \cup UpperCase \cup {"_"}
    /\ \A i \in 2..Len(key) :
           key[i] \in LowerCase \cup UpperCase \cup Digits \cup {"_", "-"}

\* the tokens of toks that have a colon after them, in their order
KeyIndexes(toks) ==
    SelectSeq([i \in 1..(Len(toks) - 1) |-> i],
              LAMBDA i : toks[i + 1].kind = "COLON")

\* the text has the key bare at the offset o, the colon right after it
WrittenBare(text, o, key) ==
    /\ o + Len(key) < Len(text)
    /\ SubSeq(text, o + 1, o + Len(key)) = key
    /\ text[o + Len(key) + 1] = ":"

\* the text has at the offset o a double-quoted string, the token tok, that
\* reads as the key
WrittenQuoted(text, o, tok, key) ==
    /\ text[o + 1] = "\""
    /\ tok.kind = "STRING"
    /\ tok.value = key

\* the text has the keys of the entries, in their order, a key bare exactly
\* if it has the shape of an identifier and as a quoted string if not
KeysWritten(text, toks, entries) ==
    /\ Len(KeyIndexes(toks)) = Len(entries)
    /\ \A j \in 1..Len(entries) :
           LET tok == toks[KeyIndexes(toks)[j]]
           IN  IF IdentShape(entries[j].key)
               THEN WrittenBare(text, tok.span.offset, entries[j].key)
               ELSE WrittenQuoted(text, tok.span.offset, tok,
                                  entries[j].key)

\* the Document is one Object
IsOneObject(d) ==
    /\ Len(d.prolog) = 0
    /\ Len(d.values) = 1
    /\ TypeOf(d.values[1].value) = "Object"

\* C18: key quoting.  The serializer writes a key of an object bare exactly
\* if the key is not empty, starts with an ASCII letter or an underscore and
\* goes on with ASCII letters, digits, underscores and hyphens only; every
\* other key is written as a double-quoted string with its escapes.
KeyQuoting ==
    (pc = "serialized" /\ IsOneObject(doc))
        => KeysWritten(output, AllTokens(output), doc.values[1].value.value)

\* An Object with a key that has a hyphen and a key that has a space was
\* written: the one bare, the other quoted.
HyphenAndSpaceKeysWritten ==
    /\ pc = "serialized"
    /\ IsOneObject(doc)
    /\ \E j, k \in 1..Len(doc.values[1].value.value) :
           /\ doc.values[1].value.value[j].key = <<"a", "-", "1">>
           /\ doc.values[1].value.value[k].key = <<"b", " ", "c">>
    /\ KeysWritten(output, AllTokens(output), doc.values[1].value.value)


---------------------------------------------------------------------------
(* The end of the input *)

\* C20: EOF is idempotent.  Once nextToken has returned an EOF token, a
\* further call returns an EOF token with the same Span and leaves pos, line
\* and column as they were; and pos is never past the end of the source.
EofIdempotent ==
    /\ lexer.pos <= Len(source)
    /\ (pc = "lexing" /\ token.kind = "EOF")
           => /\ nextToken(source, lexer).err = NoError
              /\ nextToken(source, lexer).tok.kind = "EOF"
              /\ nextToken(source, lexer).tok.span = token.span
              /\ nextToken(source, lexer).lex = lexer

\* C20 as a property of the steps: a call of nextToken made after the EOF
\* token changes neither the token nor the cursor.
EofIdempotentStep ==
    [][(NextToken /\ pc = "lexing" /\ token.kind = "EOF")
           => (token' = token /\ lexer' = lexer /\ pc' = "lexing")]_vars

\* nextToken returned EOF at the end of a text that is not empty.
EofReturned ==
    /\ pc = "lexing"
    /\ token.kind = "EOF"
    /\ Len(source) > 0
    /\ lexer.pos = Len(source)
    /\ token.span.offset = Len(source)


---------------------------------------------------------------------------
(* The lookahead of the implicit-object test *)

\* the call r = [err, P, val] of isImplicitObject() on the parser P returned
\* and left the parser as it was: the same pos, line, column and current
LookaheadLeft(P, r) ==
    r.err = NoError
        => /\ r.P.lex.pos = P.lex.pos
           /\ r.P.lex.line = P.lex.line
           /\ r.P.lex.column = P.lex.column
           /\ r.P.current = P.current

\* the top-level values read from the parser P without a lookahead,
\* as an implicit object if implicit is true and as a stream if not:
\* [err, val]
ValuesWithoutLookahead(s, P, implicit) ==
    LET r == IF implicit THEN parseEntries(s, P, EmptyMap, "EOF")
             ELSE parseStream(s, P, <<>>)
    IN  [err |-> r.err,
         val |-> IF r.err # NoError THEN NoDocument
                 ELSE IF implicit
                 THEN <<Node(<<>>, <<>>, XObject(r.val))>>
                 ELSE r.val]

\* the outcome of parseStr, the error e and the Document d, is what reading
\* the values from the parser a = [err, P, val] after the prolog gives
\* without a lookahead
SameAsWithoutLookahead(s, a, e, d) ==
    LET w == ValuesWithoutLookahead(s, a.P, KeyThenColon(s))
    IN  /\ e = w.err
        /\ w.err = NoError => d = Document(a.val, w.val)

\* C21: the implicit-object lookahead has no side effects.  Whenever
\* isImplicitObject returns, pos, line, column and the buffered token are
\* what they were before the call, and the parse goes on as if no lookahead
\* had been made: its outcome is that of reading the values right from the
\* parser the prolog left.
LookaheadHasNoSideEffects ==
    (pc \in {"parsed", "failed"} /\ BodyStarts(source))
        => /\ LookaheadLeft(AfterProlog(source).P,
                            isImplicitObject(source, AfterProlog(source).P))
           /\ SameAsWithoutLookahead(source, AfterProlog(source), err, doc)

\* A text that starts with a string and has no colon after it was parsed:
\* the lookahead read the token after the string and said no, and the string
\* is the first of two values.
LookaheadSaidNo ==
    /\ pc = "parsed"
    /\ BodyStarts(source)
    /\ AfterProlog(source).P.current.kind = "STRING"
    /\ ~KeyThenColon(source)
    /\ Len(doc.values) = 2
    /\ doc.values[1].value = XString(<<"s">>)


---------------------------------------------------------------------------
(* The first violation *)

\* the token is a b"...", u"..." or t"..." literal that parseValue refuses
RefusedLiteral(s, tok) ==
    /\ tok.kind \in {"B_QUOTED", "U_QUOTED", "T_QUOTED"}
    /\ scalarValue(tok, [lex |-> Lexer(s), current |-> NoToken]).err
           # NoError

\* the error e is reported no later in the text than the token
NotReportedAfter(e, tok) ==
    /\ e # NoError
    /\ e.span.offset <= tok.span.offset

\* C22: the first violation aborts the parse.  When a token of the source is
\* itself invalid, a u"...", b"..." or t"..." literal that is refused, the
\* parse fails and the error it reports has no later Span than that token,
\* whatever follows the token: an unlexable character after the literal is
\* not what is reported.
FirstViolationAborts ==
    pc \in {"parsed", "failed"}
        => \A i \in 1..Len(AllTokens(source)) :
               RefusedLiteral(source, AllTokens(source)[i])
                   => /\ pc = "failed"
                      /\ NotReportedAfter(err, AllTokens(source)[i])

\* The same for the texts that end with the literal.
FirstViolationAbortsAtEnd ==
    (pc \in {"parsed", "failed"} /\ source # <<>>
         /\ source[Len(source)] # "^")
        => \A i \in 1..Len(AllTokens(source)) :
               RefusedLiteral(source, AllTokens(source)[i])
                   => /\ pc = "failed"
                      /\ NotReportedAfter(err, AllTokens(source)[i])


---------------------------------------------------------------------------
(* Characters that start no token *)

\* What the texts of lone signs and dots start with: nothing, or a value and
\* a space.
BareLeads == {<<>>, <<"1", " ">>, <<"/", "/", "c", "\n">>}

\* A dot or a sign with and without what makes it a number, and characters
\* no token starts with.
BareBodies ==
    {<<".">>, <<"+">>, <<"-">>, <<"+", ".">>, <<"-", ".">>, <<".", ".">>,
     <<"+", "-">>, <<"^">>, <<"~">>, <<".", "5">>, <<"+", "5">>,
     <<"-", ".", "5">>, <<"+", "1", ".">>, <<"-", "1">>}

\* What follows: nothing, a space, a newline, a letter, a closing brace.
BareTrails == {<<>>, <<" ">>, <<"\n">>, <<"x">>, <<"}">>}

BareSources ==
    {a \o b \o z : a \in BareLeads, b \in BareBodies, z \in BareTrails}

InitBare == Start(BareSources)

SpecBare == InitBare /\ [][Next]_vars

\* The characters a token can start with.
TokenStarts ==
    {"{", "}", "[", "]", "(", ")", ":", ",", "$", "#", "@", "\""}
        \cup LowerCase \cup UpperCase \cup {"_"}
        \cup Digits \cup {".", "+", "-"}

\* the character at the cursor L starts no valid token: it is none of the
\* characters a token starts with, or a dot with no digit right after it, or
\* a sign with neither a digit nor a dot right after it (the end of the
\* input is no digit and no dot)
StartsNoToken(s, L) ==
    /\ Lexer_peek(s, L) # JsNull
    /\ \/ Lexer_peek(s, L) \notin TokenStarts
       \/ Lexer_peek(s, L) = "." /\ Lexer_peekNext(s, L) \notin Digits
       \/ /\ Lexer_peek(s, L) \in {"+", "-"}
          /\ Lexer_peekNext(s, L) \notin Digits \cup {"."}

\* the call of nextToken that was just made failed with InvalidToken at the
\* cursor L
FailedWithInvalidToken(L) ==
    /\ pc' = "lexfailed"
    /\ err' = XCDNError("InvalidToken", Lexer_span(L))

\* the cursor where the token of the next call starts: the one
\* skipWsAndComments leaves
SkippedTo(s, L) == skipWsAndComments(s, L).lex

\* C23: nextToken fails with InvalidToken whenever the next character that
\* is not skipped starts no valid token, a dot without a digit right after
\* it and a sign without a digit or a dot right after it in particular, also
\* when that character is the last of the input.
InvalidTokenAtBareSign ==
    [][(NextToken /\ skipWsAndComments(source, lexer).err = NoError
            /\ StartsNoToken(source, SkippedTo(source, lexer)))
           => FailedWithInvalidToken(SkippedTo(source, lexer))]_vars

\* The same when that character is not the last of the input.
InvalidTokenAtBareSignInside ==
    [][(NextToken /\ skipWsAndComments(source, lexer).err = NoError
            /\ StartsNoToken(source, SkippedTo(source, lexer))
            /\ Lexer_peekNext(source, SkippedTo(source, lexer)) # JsNull)
           => FailedWithInvalidToken(SkippedTo(source, lexer))]_vars


---------------------------------------------------------------------------
(* A dot after the digits *)

\* the cursor L is at a sign: 1 if so, 0 if not
SignLength(s, L) == IF Lexer_peek(s, L) \in {"+", "-"} THEN 1 ELSE 0

\* the integer digits of the number at the cursor L, after its sign
IntegerDigits(s, L) == DigitsFrom(s, L.pos + 1 + SignLength(s, L))

\* the offset right after the integer digits of the number at the cursor L
AfterIntegerDigits(s, L) ==
    L.pos + SignLength(s, L) + Len(IntegerDigits(s, L))

\* at the cursor L there are the digits of an integer, with or without a
\* sign, then a dot, and then no digit: another character or the end
DigitsThenLoneDot(s, L) ==
    /\ IntegerDigits(s, L) # <<>>
    /\ AfterIntegerDigits(s, L) < Len(s)
    /\ s[AfterIntegerDigits(s, L) + 1] = "."
    /\ \/ AfterIntegerDigits(s, L) + 1 = Len(s)
       \/ s[AfterIntegerDigits(s, L) + 2] \notin Digits

\* the call of nextToken that was just made, from the cursor L, returned the
\* INT of the integer digits and stopped before the dot
IntBeforeDot(s, L) ==
    /\ pc' = "lexing"
    /\ token' = Token("INT", Lexer_span(L),
                      BigIntOf(Lexer_peek(s, L) = "-", IntegerDigits(s, L)))
    /\ lexer'.pos = AfterIntegerDigits(s, L)

\* C24: a lone trailing dot is not part of a number.  For digits followed by
\* a dot and then by no digit, another character or the end of the input,
\* nextToken returns the INT of the digits and leaves the cursor before the
\* dot.
LoneDotNotConsumed ==
    [][(NextToken /\ skipWsAndComments(source, lexer).err = NoError
            /\ DigitsThenLoneDot(source, SkippedTo(source, lexer)))
           => IntBeforeDot(source, SkippedTo(source, lexer))]_vars

\* The same for a dot that is not the last character of the input.
LoneDotNotConsumedInside ==
    [][(NextToken /\ skipWsAndComments(source, lexer).err = NoError
            /\ DigitsThenLoneDot(source, SkippedTo(source, lexer))
            /\ AfterIntegerDigits(source, SkippedTo(source, lexer)) + 1
                   < Len(source))
           => IntBeforeDot(source, SkippedTo(source, lexer))]_vars


---------------------------------------------------------------------------
(* Strings as they are written and read back *)

\* The longest string the caller puts in a Document.
MaxEscaped == 2

\* The characters of those strings: the quote, the backslash, the seven
\* control characters with a short escape or none, the first and the last
\* control character, the slash, and characters that are letters of escapes.
EscapedChars ==
    {"\"", "\\", CharOfCode(8), "\f", "\n", "\r", "\t", CharOfCode(0),
     CharOfCode(31), "/", "u", "n", "0", " "}

RECURSIVE StringsUpTo(_)
\* the strings of at most n of these characters
StringsUpTo(n) ==
    IF n = 0 THEN {<<>>}
    ELSE StringsUpTo(n - 1)
             \cup {s \o <<c>> : s \in StringsUpTo(n - 1), c \in EscapedChars}

EscapedStrings == StringsUpTo(MaxEscaped)

InitEsc == Start({<<"{", "}">>})

\* doc.set('k', new XString(s)), once
NextEsc ==
    \/ Next
    \/ \E s \in EscapedStrings :
           declared = <<>> /\ Set(<<"k">>, XString(s))

SpecEsc == InitEsc /\ [][NextEsc]_vars

\* The characters with an escape of two characters, each with the letter of
\* its escape.
ShortEscapes ==
    {<<"\"", "\"">>, <<"\\", "\\">>, <<CharOfCode(8), "b">>, <<"\f", "f">>,
     <<"\n", "n">>, <<"\r", "r">>, <<"\t", "t">>}

\* the value of a hexadecimal digit of either case
HexDigitValue(h) ==
    CHOOSE n \in 0..15 : HexLower[n + 1] = h \/ HexUpper[n + 1] = h

\* e is the text \u00XX of the character of code n
IsUnicodeEscape(e, n) ==
    /\ Len(e) = 6
    /\ SubSeq(e, 1, 4) = <<"\\", "u", "0", "0">>
    /\ \A i \in {5, 6} : \E k \in 1..16 : e[i] \in {HexLower[k], HexUpper[k]}
    /\ 16 * HexDigitValue(e[5]) + HexDigitValue(e[6]) = n

\* e is the escape of the character ch: two characters for the seven with a
\* short escape, \u00XX for any other below 0x20, the character itself for
\* every other
IsEscapeOf(e, ch) ==
    IF \E p \in ShortEscapes : p[1] = ch
    THEN \E p \in ShortEscapes : p[1] = ch /\ e = <<"\\", p[2]>>
    ELSE IF \E n \in 0..31 : CharOfCode(n) = ch
    THEN \E n \in 0..31 : CharOfCode(n) = ch /\ IsUnicodeEscape(e, n)
    ELSE e = <<ch>>

\* escapeString(s) is made of the escapes of the characters of s
EscapedByCharacter(s) ==
    /\ \A i \in 1..Len(s) : IsEscapeOf(escapeString(<<s[i]>>), s[i])
    /\ escapeString(s) = Concat([i \in 1..Len(s) |-> escapeString(<<s[i]>>)])

\* the tokens are one STRING token of the value s and the EOF
IsOneString(toks, s) ==
    /\ Len(toks) = 2
    /\ toks[1].kind = "STRING"
    /\ toks[1].value = s
    /\ toks[2].kind = "EOF"

\* the text has a STRING token of the value s
HasString(text, s) ==
    \E i \in 1..Len(AllTokens(text)) :
        /\ AllTokens(text)[i].kind = "STRING"
        /\ AllTokens(text)[i].value = s

\* C25: output escaping mirrors input escaping.  For every string s the
\* lexer reads the text of a quote, escapeString(s) and a quote as exactly
\* one STRING token of the value s; escapeString writes a two-character
\* escape for the quote, the backslash, backspace, formfeed, newline,
\* carriage return and tab, \u00XX for any other character below 0x20 and
\* every other character as it is; and the text written for a Document
\* that holds s has that token.
EscapingMirrors ==
    (pc = "serialized" /\ declared # <<>>)
        => /\ IsOneString(AllTokens(<<"\"">>
                              \o escapeString(declared[1].val.value)
                              \o <<"\"">>),
                          declared[1].val.value)
           /\ EscapedByCharacter(declared[1].val.value)
           /\ HasString(output, declared[1].val.value)

\* A string of a quote and a backslash was written.
QuoteAndBackslashWritten ==
    /\ pc = "serialized"
    /\ declared # <<>>
    /\ declared[1].val.value = <<"\"", "\\">>
    /\ HasString(output, <<"\"", "\\">>)


---------------------------------------------------------------------------
(* Objects that repeat a key *)

\* The texts with repeated keys: in braces and at the top level, a key
\* twice and three times, as a name and as a string, in a nested object and
\* in an object of an array.
DuplicateSources ==
    {<<"{", "a", ":", " ", "1", ",", " ", "a", ":", " ", "2", "}">>,
     <<"{", "a", ":", " ", "1", ",", " ", "b", ":", " ", "2", ",", " ", "a",
       ":", " ", "3", "}">>,
     <<"a", ":", " ", "1", ",", " ", "a", ":", " ", "2">>,
     <<"a", ":", " ", "1", ",", " ", "b", ":", " ", "2", ",", " ", "a", ":",
       " ", "3", ",", " ", "b", ":", " ", "4">>,
     <<"{", "\"", "a", "\"", ":", " ", "1", ",", " ", "a", ":", " ", "2",
       "}">>,
     <<"{", "a", ":", " ", "1", ",", " ", "b", ":", " ", "2", "}">>,
     <<"{", "b", ":", " ", "1", ",", " ", "a", ":", " ", "2", ",", " ", "b",
       ":", " ", "3", ",", " ", "b", ":", " ", "4", "}">>,
     <<"{", "o", ":", " ", "{", "x", ":", " ", "1", ",", " ", "x", ":", " ",
       "2", "}", ",", " ", "o", ":", " ", "{", "y", ":", " ", "1", ",", " ",
       "y", ":", " ", "2", ",", " ", "z", ":", " ", "3", "}", "}">>,
     <<"[", "{", "k", ":", " ", "1", ",", " ", "k", ":", " ", "2", "}",
       "]">>}

InitDup == Start(DuplicateSources)

SpecDup == InitDup /\ [][NextMut]_vars

\* the depth at which the keys of the root Object of the text are written
RootKeyDepth(toks) == IF toks[1].kind = "LBRACE" THEN 1 ELSE 0

\* the place among the tokens of the last occurrence of the key at depth d
LastOccurrence(toks, key, d) ==
    CHOOSE i \in 1..Len(toks) :
        /\ IsKeyAt(toks, i, d) /\ toks[i].value = key
        /\ \A j \in (i + 1)..Len(toks) :
               ~(IsKeyAt(toks, j, d) /\ toks[j].value = key)

\* the node of the key in the entries m is the one of the key's last
\* occurrence among the tokens, for the occurrences whose value is an integer
HoldsLastOccurrence(m, toks, key, d) ==
    LET tok == toks[LastOccurrence(toks, key, d) + 2]
    IN  tok.kind = "INT"
            => MapGet(m, key) = Node(<<>>, <<>>, IntValue(tok.value))

\* the keys of the entries m are each there once
KeysUnique(m) ==
    \A i, j \in 1..Len(m) : m[i].key = m[j].key => i = j

RECURSIVE ObjectsHaveUniqueKeys(_)
\* every Object in the value, itself included, has each of its keys once
ObjectsHaveUniqueKeys(value) ==
    CASE TypeOf(value) = "Object" ->
             /\ KeysUnique(value.value)
             /\ \A i \in 1..Len(value.value) :
                    ObjectsHaveUniqueKeys(value.value[i].node.value)
      [] TypeOf(value) = "Array" ->
             \A i \in 1..Len(value.value) :
                 ObjectsHaveUniqueKeys(value.value[i].value)
      [] OTHER -> TRUE

\* the root Object obj read from the tokens after the prolog has each key of
\* the text once, at the place of its first occurrence, with the node of its
\* last
RepeatedKeysMerged(obj, toks) ==
    /\ XObject_keys(obj)
           = FirstOccurrences(KeysFrom(toks, 1, RootKeyDepth(toks)))
    /\ \A i \in 1..Len(obj.value) :
           HoldsLastOccurrence(obj.value, toks, obj.value[i].key,
                               RootKeyDepth(toks))

\* C26: duplicate keys.  When an object literal, in braces or implicit at
\* the top level, repeats a key, the Object has the key once, at the place
\* of its first occurrence and with the node of its last; and in every
\* Object, parsed or changed with set, each key is there once.
DuplicateKeysLastWins ==
    /\ pc \notin {"start", "lexing", "lexfailed", "failed"}
           => \A i \in 1..Len(doc.values) :
                  ObjectsHaveUniqueKeys(doc.values[i].value)
    /\ (pc = "parsed" /\ declared = <<>> /\ HasRootObject)
           => RepeatedKeysMerged(doc.values[1].value, BodyTokens(source))

\* The text a: 1, b: 2, a: 3, b: 4 was parsed: the Object has a and b, in
\* this order, with 3 and 4.
RepeatedKeysParsed ==
    /\ pc = "parsed"
    /\ declared = <<>>
    /\ HasRootObject
    /\ Len(KeysFrom(BodyTokens(source), 1, 0)) = 4
    /\ XObject_keys(doc.values[1].value) = <<<<"a">>, <<"b">>>>
    /\ MapGet(doc.values[1].value.value, <<"a">>)
           = Node(<<>>, <<>>, IntValue(BigIntOf(FALSE, <<"3">>)))
    /\ MapGet(doc.values[1].value.value, <<"b">>)
           = Node(<<>>, <<>>, IntValue(BigIntOf(FALSE, <<"4">>)))


---------------------------------------------------------------------------
(* The spans of the tokens *)

\* The texts of several lines: with comments, tabs, a carriage return, blank
\* lines, and strings that go over a line.
LineSources ==
    {<<"a", ":", " ", "1", "\n", "b", ":", " ", "[", "2", ",", "\n", " ",
       " ", "\"", "s", "\"", "]">>,
     <<"/", "*", " ", "c", "\n", "c", " ", "*", "/", " ", "x", "\n", "\t",
       "y">>,
     <<"\"", "a", "\n", "b", "\"", " ", "1">>,
     <<"\"", "\"", "\"", "t", "\n", "t", "\"", "\"", "\"", " ", "u", "\"",
       "x", "\"">>,
     <<"\n", "\n", "1">>,
     <<"/", "/", " ", "c", "\n", "#", "t", " ", "@", "f", "(", "1", ")",
       "\n", "{", "}">>,
     <<"1", " ", "2", " ", " ", " ", "3">>,
     <<"x", "\r", "\n", "y">>,
     <<"$", "d", ":", " ", "1", ",", "\n", "\n", " ", " ", "t", "\"", "x",
       "\"", " ", "-", "2", ".", "5", "e", "1", "\n">>}

InitLines == Start(LineSources)

SpecLines == InitLines /\ [][Next]_vars

\* the newline characters among the first o characters of the text
NewlinesBefore(s, o) == {i \in 1..o : s[i] = "\n"}

\* the place of the last of them, 0 if there is none
LastNewlineBefore(s, o) ==
    IF NewlinesBefore(s, o) = {} THEN 0
    ELSE CHOOSE i \in NewlinesBefore(s, o) :
             \A j \in NewlinesBefore(s, o) : j <= i

\* the span of the character of the text at the offset o
SpanOfOffset(s, o) ==
    Span(o, 1 + Cardinality(NewlinesBefore(s, o)),
         1 + (o - LastNewlineBefore(s, o)))

\* ch is a character a token of the kind starts with
StartsKind(ch, kind) ==
    CASE kind \in {"LBRACE", "RBRACE", "LBRACKET", "RBRACKET", "LPAREN",
                   "RPAREN", "COLON", "COMMA", "DOLLAR", "HASH", "AT"} ->
             kind = StructuralKind(ch)
      [] kind \in {"STRING", "TRIPLE_STRING"} -> ch = "\""
      [] kind \in {"IDENT", "TRUE", "FALSE", "NULL"} ->
             ch \in LowerCase \cup UpperCase \cup {"_"}
      [] kind \in {"INT", "FLOAT"} -> ch \in Digits \cup {"+", "-", "."}
      [] kind = "D_QUOTED" -> ch = "d"
      [] kind = "B_QUOTED" -> ch = "b"
      [] kind = "U_QUOTED" -> ch = "u"
      [] kind = "T_QUOTED" -> ch = "t"
      [] kind = "R_QUOTED" -> ch = "r"
      [] OTHER -> FALSE

\* the token has the span of its first character in the text; the EOF token
\* that of the end of the text
SpanExact(s, tok) ==
    /\ tok.span = SpanOfOffset(s, tok.span.offset)
    /\ IF tok.kind = "EOF" THEN tok.span.offset = Len(s)
       ELSE /\ tok.span.offset < Len(s)
            /\ StartsKind(s[tok.span.offset + 1], tok.kind)

\* C27: token spans are exact.  Every token nextToken returns has the Span
\* of its first character: the offset is the character's index in the
\* source, the line 1 plus the newlines before it, the column 1 plus the
\* characters since the last newline or since the start; and of two tokens
\* returned one after the other, neither the EOF, the second has the greater
\* offset.
TokenSpansExact ==
    /\ [](pc = "lexing" => SpanExact(source, token))
    /\ [][(NextToken /\ pc = "lexing" /\ pc' = "lexing"
               /\ token.kind # "EOF" /\ token'.kind # "EOF")
              => token'.span.offset > token.span.offset]_vars

\* A token was returned that starts on the third line behind two
\* characters.
TokenOnThirdLine ==
    /\ pc = "lexing"
    /\ token.kind = "STRING"
    /\ token.span = Span(14, 3, 3)
    /\ SpanExact(source, token)


---------------------------------------------------------------------------
(* Progress of the lexer and of the parser's loops *)

\* The texts the loops are run on: the examples of the top-level rule, the
\* streams, the decorated values, the faulty texts, and texts with two
\* directives and with nested arrays and objects.
LoopSources ==
    Examples \cup CommaStreams \cup DecoratedSources \cup FaultySources
        \cup {<<"$", "d", ":", " ", "1", ",", " ", "$", "e", ":", " ", "[",
                "2", "]", " ", "a", ":", " ", "{", "b", ":", " ", "[", "]",
                "}">>,
              <<"[", "[", "1", ",", " ", "{", "}", "]", ",", " ", "@", "f",
                "(", "[", "1", "]", ",", " ", "2", ")", " ", "#", "t", " ",
                "3", "]">>}

InitLoops == Start(LoopSources)

SpecLoops == InitLoops /\ [][Next]_vars

RECURSIVE ParsersFrom(_, _)
\* the parsers that bump() after bump() makes of the parser P, up to the end
\* of the input or to the first token that cannot be read
ParsersFrom(s, P) ==
    IF P.current.kind = "EOF" THEN {P}
    ELSE LET b == Parser_bump(s, P)
         IN  IF b.err # NoError THEN {P}
             ELSE {P} \cup ParsersFrom(s, b.P)

\* the parsers at the tokens of the text: each place a loop of the parser
\* can be at
ParsersAt(s) ==
    IF Parser(s).err # NoError THEN {}
    ELSE ParsersFrom(s, Parser(s).P)

\* the call r = [err, P, val] made on the parser P threw, or returned with
\* the parser at a later token
Consumed(P, r) ==
    r.err = NoError
        => r.P.current.span.offset > P.current.span.offset

\* what each iteration of a loop of the parser starts with consumes a token
\* or throws, on the parser P: the bump of the "$" of a directive and of the
\* "@" and "#" of a decoration, parseKey of an entry, parseNode of an array
\* element and of a value of the stream, parseValue of an argument
IterationConsumes(s, P) ==
    /\ P.current.kind \in {"DOLLAR", "AT", "HASH"}
           => Consumed(P, Parser_bump(s, P))
    /\ Consumed(P, parseKey(s, P))
    /\ Consumed(P, parseNode(s, P))
    /\ Consumed(P, parseValue(s, P))

\* C28: parseStr terminates.  Every call of nextToken advances pos by at
\* least one character, returns EOF or throws; at every token of the input
\* what an iteration of a loop of the parser starts with (directives,
\* implicit object, value stream, decorations, annotation arguments, object
\* entries, array elements) consumes at least one token or throws; and the
\* parse ends with a Document or with an error.
ParseTerminates ==
    /\ [][NextToken
              => (pc' = "lexfailed" \/ token'.kind = "EOF"
                      \/ lexer'.pos > lexer.pos)]_vars
    /\ []((pc = "lexing" /\ token.kind # "EOF")
              => lexer.pos > token.span.offset)
    /\ [](pc \in {"parsed", "failed"}
              => /\ pc = "parsed" => (doc # NoDocument /\ err = NoError)
                 /\ pc = "failed" => (doc = NoDocument /\ err # NoError)
                 /\ \A P \in ParsersAt(source) : IterationConsumes(source, P))

\* A text of ten tokens or more with an annotation was parsed.
LoopsRan ==
    /\ pc = "parsed"
    /\ Cardinality(ParsersAt(source)) >= 10
    /\ \E P \in ParsersAt(source) : P.current.kind = "AT"
    /\ \A P \in ParsersAt(source) : IterationConsumes(source, P)


---------------------------------------------------------------------------
(* Children given to arrays and objects *)

\* The most elements an array is given.
MaxItems == 3

\* The texts whose document is one Array or one Object.
ChildSources ==
    {<<"[", "]">>, <<"[", "1", ",", " ", "2", "]">>, <<"{", "}">>,
     <<"{", "a", ":", " ", "1", "}">>}

\* the document's top level is one Array
HasRootArray ==
    /\ doc # NoDocument
    /\ Len(doc.values) = 1
    /\ doc.values[1].value.type = "Array"

\* doc.values[0].set(key, val) on an Object
NodeSet(key, val) ==
    /\ pc = "parsed"
    /\ HasRootObject
    /\ doc' = [doc EXCEPT !.values[1] = Node_set(@, key, val)]
    /\ UNCHANGED <<source, lexer, token, err, format, output, reparsed,
                   output2, declared, serializer, pc>>

\* doc.values[0].set(index, val) on an Array, for an index up to the length
NodeSetAt(index, val) ==
    /\ pc = "parsed"
    /\ HasRootArray
    /\ index <= Len(doc.values[1].value.value)
    /\ index < MaxItems
    /\ doc' = [doc EXCEPT !.values[1] = Node_set(@, index, val)]
    /\ UNCHANGED <<source, lexer, token, err, format, output, reparsed,
                   output2, declared, serializer, pc>>

\* doc.values[0].append(val)
NodeAppend(val) ==
    /\ pc = "parsed"
    /\ HasRootArray
    /\ Len(doc.values[1].value.value) < MaxItems
    /\ doc' = [doc EXCEPT !.values[1] = Node_append(@, val)]
    /\ UNCHANGED <<source, lexer, token, err, format, output, reparsed,
                   output2, declared, serializer, pc>>

InitChildren == Start(ChildSources)

NextChildren ==
    \/ NextMut
    \/ \E key \in SetKeys, val \in SetValues : NodeSet(key, val)
    \/ \E index \in 0..MaxItems, val \in SetValues : NodeSetAt(index, val)
    \/ \E val \in SetValues : NodeAppend(val)

SpecChildren == InitChildren /\ [][NextChildren]_vars

RECURSIVE ChildrenAreNodes(_)
\* every element of every Array and every entry value of every Object in the
\* value is a Node
ChildrenAreNodes(value) ==
    CASE TypeOf(value) = "Array" ->
             \A i \in 1..Len(value.value) :
                 /\ IsNode(value.value[i])
                 /\ ChildrenAreNodes(value.value[i].value)
      [] TypeOf(value) = "Object" ->
             \A i \in 1..Len(value.value) :
                 /\ IsNode(value.value[i].node)
                 /\ ChildrenAreNodes(value.value[i].node.value)
      [] OTHER -> TRUE

\* every child in the Document d is a Node
DocumentOfNodes(d) ==
    \A i \in 1..Len(d.values) :
        IsNode(d.values[i]) /\ ChildrenAreNodes(d.values[i].value)

\* C29: children are always Nodes.  After any calls of XObject.set,
\* XArray.append, XArray.set, Node.set, Node.append and Document.set on a
\* parsed Document, with Values or Nodes as arguments, every element of
\* every Array and every entry value of every Object is a Node, and the
\* Document can be serialized in every format.
ChildrenAlwaysNodes ==
    doc # NoDocument
        => /\ DocumentOfNodes(doc)
           /\ \A fmt \in Formats : ~serialize(fmt, doc).thrown

\* The same for every call but a set on an Array.
ChildrenStayNodesUnlessArraySet ==
    [][(doc # NoDocument /\ DocumentOfNodes(doc) /\ doc' # NoDocument
            /\ ~\E index \in 0..MaxItems, val \in SetValues :
                     NodeSetAt(index, val))
           => (DocumentOfNodes(doc')
                   /\ \A fmt \in Formats : ~serialize(fmt, doc').thrown)]_vars


---------------------------------------------------------------------------
(* Bare keys read back *)

\* The names readIdent() gives a token kind of their own.
KeywordNames ==
    {<<"t", "r", "u", "e">>, <<"f", "a", "l", "s", "e">>,
     <<"n", "u", "l", "l">>}

\* the keys of the parsed document's one Object that the serializer writes
\* bare
BareKeys ==
    IF HasRootObject
    THEN {k \in {XObject_keys(doc.values[1].value)[i] :
                    i \in 1..Len(doc.values[1].value.value)} :
             isSimpleIdent(k)}
    ELSE {}

\* the lexer reads the text k as one IDENT token of the value k, then EOF
ReadAsOneIdent(k) ==
    LET toks == AllTokens(k) IN
    /\ Len(toks) = 2
    /\ toks[1].kind = "IDENT"
    /\ toks[1].value = k
    /\ toks[2].kind = "EOF"

\* once the output was parsed again: it was accepted and holds the key k
ReadBackWith(k) ==
    pc \in {"reparsed", "refused", "reserialized"}
        => /\ pc # "refused"
           /\ Len(reparsed.values) = 1
           /\ reparsed.values[1].value.type = "Object"
           /\ MapHas(reparsed.values[1].value.value, k)

\* C30: every key the serializer emits bare is read back as the same key.
\* For every key k of a parsed Object with isSimpleIdent(k), the lexer
\* reads the text k as a single IDENT token of the value k, and the
\* serialized Object is parsed again, with the key k.
BareKeysReadBack ==
    \A k \in BareKeys : ReadAsOneIdent(k) /\ ReadBackWith(k)

\* The same for the keys that are none of true, false and null.
BareKeysReadBackButKeywords ==
    \A k \in BareKeys \ KeywordNames : ReadAsOneIdent(k) /\ ReadBackWith(k)

\* a key of more than one character was written bare and read back
BareKeyReadBack ==
    /\ pc = "reparsed"
    /\ \E k \in BareKeys : Len(k) > 1 /\ ReadAsOneIdent(k) /\ ReadBackWith(k)


=============================================================================
